---- MODULE Spec2Model ----
(***************************************************************************)
(* mirri-editor: the input decoder (async_decode.rs, decode.rs) and the    *)
(* row column mapping (row.rs, render.rs).                                 *)
(*                                                                         *)
(* Bytes are integers 0..255, characters are Unicode code points.  A       *)
(* Decoder is the record of its fields plus the position of its reader (a  *)
(* Cursor over the byte string `input`).                                   *)
(***************************************************************************)
EXTENDS Integers, Sequences, FiniteSets, TLC

VARIABLES
    impl,         \* which Decoder was constructed: "async_decode" or "decode"
    input,        \* the bytes behind the reader
    dec,          \* the Decoder: [pos, unread_char, read_buf]
    events,       \* the results of the read_input calls so far (the tests' output vec)
    char_events,  \* the results of the read_char calls so far
    row_chars,    \* Row.chars, as a sequence of code points
    trace,        \* the column-mapping calls made on the row, in order
    render,       \* a column-windowed render iterator over the row, and what it emitted
    buffer,       \* the TextBuffer: rows, cursor, render_rect, syntax
    find,         \* the Find of a search in progress
    hist,         \* the buffer operations so far: how many edits, and the last calls
    editor,       \* the Editor: its buffers, the index of the current one, the status message
    keymap,       \* a KeyMap under insert: the trie, and the last call with what it returned
    conv          \* a Key or Input under to_string and from_str

decVars == <<impl, input, dec, events, char_events>>
rowVars == <<row_chars, trace>>
libVars == <<keymap, conv>>
bufVars == <<buffer, find, hist, editor, libVars>>
vars == <<impl, input, dec, events, char_events, row_chars, trace, render, buffer, find, hist, editor, keymap, conv>>

----------------------------------------------------------------------------
(* Bounds *)

MaxStreamLen == 4
MaxRowLen == 3

----------------------------------------------------------------------------
(* Helpers *)

Min(a, b) == IF a < b THEN a ELSE b
Max(a, b) == IF a > b THEN a ELSE b

\* the sequences over S of length 0..n
SeqsUpTo(S, n) == UNION {[1 .. m -> S] : m \in 0 .. n}

ESC == 27
LBRACKET == 91
TAB == 9
NoChar == -1
NoByte == -1

----------------------------------------------------------------------------
(* Input and Key (decode.rs / input.rs) *)

Char(c) == [kind |-> "Char", ch |-> c]
Named(k) == [kind |-> k, ch |-> 0]

InputNew(key) == [key |-> key, ctrl |-> FALSE, alt |-> FALSE]
InputCtrl(key) == [key |-> key, ctrl |-> TRUE, alt |-> FALSE]

NoInput == [key |-> Named("none"), ctrl |-> FALSE, alt |-> FALSE]

\* Result<Option<Input>>: Ok(Some(i)), Ok(None), Err(e), or a panic
Some(i) == [tag |-> "Some", input |-> i, err |-> ""]
None == [tag |-> "None", input |-> NoInput, err |-> ""]
Err(e) == [tag |-> "Err", input |-> NoInput, err |-> e]
Panic == [tag |-> "Panic", input |-> NoInput, err |-> "assertion failed: self.unread_char.is_none()"]

----------------------------------------------------------------------------
(* UTF-8 *)

\* Faulty variant of Utf8Width: a two-byte leading byte taken for a three-byte one
Utf8WidthTwoAsThree(b) ==
    IF b <= 127 THEN 1
    ELSE IF b <= 191 \/ b >= 248 THEN 0
    ELSE IF b <= 239 THEN 3
    ELSE 4

\* the width class of a leading byte
Utf8Width(b) ==
    IF b <= 127 THEN 1
    ELSE IF b <= 191 \/ b >= 248 THEN 0
    ELSE IF b <= 223 THEN 2
    ELSE IF b <= 239 THEN 3
    ELSE 4

IsCont(b) == b >= 128 /\ b <= 191

\* Faulty variant of FromUtf8Ok: only the shape of the bytes is looked at, so
\* overlong forms, surrogates and values above U+10FFFF pass
FromUtf8OkShapeOnly(bytes) ==
    LET n == Len(bytes)
        b1 == bytes[1]
    IN  \/ n = 1 /\ b1 <= 127
        \/ n = 2 /\ b1 >= 192 /\ b1 <= 223 /\ IsCont(bytes[2])
        \/ n = 3 /\ b1 >= 224 /\ b1 <= 239 /\ IsCont(bytes[2]) /\ IsCont(bytes[3])
        \/ n = 4 /\ b1 >= 240 /\ b1 <= 247
                 /\ IsCont(bytes[2]) /\ IsCont(bytes[3]) /\ IsCont(bytes[4])

\* str::from_utf8 on the gathered bytes (1 to 4 of them, the first one fixing
\* the width class): the well-formed sequences of RFC 3629
FromUtf8Ok(bytes) ==
    LET n == Len(bytes)
        b1 == bytes[1]
    IN  \/ n = 1 /\ b1 <= 127
        \/ n = 2 /\ b1 >= 194 /\ b1 <= 223 /\ IsCont(bytes[2])
        \/ n = 3 /\ b1 >= 224 /\ b1 <= 239
                 /\ IsCont(bytes[2]) /\ IsCont(bytes[3])
                 /\ (b1 = 224 => bytes[2] >= 160)
                 /\ (b1 = 237 => bytes[2] <= 159)
        \/ n = 4 /\ b1 >= 240 /\ b1 <= 244
                 /\ IsCont(bytes[2]) /\ IsCont(bytes[3]) /\ IsCont(bytes[4])
                 /\ (b1 = 240 => bytes[2] >= 144)
                 /\ (b1 = 244 => bytes[2] <= 143)

\* s.chars().next() on a valid one-character string
FirstChar(bytes) ==
    LET n == Len(bytes)
    IN  IF n = 1 THEN bytes[1]
        ELSE IF n = 2 THEN (bytes[1] % 32) * 64 + (bytes[2] % 64)
        ELSE IF n = 3 THEN (bytes[1] % 16) * 4096 + (bytes[2] % 64) * 64 + (bytes[3] % 64)
        ELSE (bytes[1] % 8) * 262144 + (bytes[2] % 64) * 4096
             + (bytes[3] % 64) * 64 + (bytes[4] % 64)

\* char::len_utf8
LenUtf8(c) == IF c < 128 THEN 1 ELSE IF c < 2048 THEN 2 ELSE IF c < 65536 THEN 3 ELSE 4

\* char::is_ascii_control
IsAsciiControl(c) == c < 32 \/ c = 127

\* char::is_control (general category Cc)
IsControl(c) == c < 32 \/ (c >= 127 /\ c <= 159)

----------------------------------------------------------------------------
(* Decoder *)

NewDecoder == [pos |-> 1, unread_char |-> NoChar, read_buf |-> <<>>]

\* read_byte on a Cursor: the next byte, or None at the end of the bytes
ReadByte(s, d) ==
    IF d.pos > Len(s) THEN [d |-> d, b |-> NoByte]
    ELSE [d |-> [d EXCEPT !.pos = @ + 1], b |-> s[d.pos]]

\* the loop `while bytes.len() < width` of read_char
RECURSIVE GatherBytes(_, _, _, _)
GatherBytes(s, d, bytes, width) ==
    IF Len(bytes) < width
    THEN LET r == ReadByte(s, d)
         IN  IF r.b = NoByte THEN [d |-> r.d, bytes |-> bytes]
             ELSE GatherBytes(s, r.d, Append(bytes, r.b), width)
    ELSE [d |-> d, bytes |-> bytes]

CharSome(d, c, from) == [d |-> d, tag |-> "Some", ch |-> c, err |-> "", from |-> from]
CharNone(d, from) == [d |-> d, tag |-> "None", ch |-> NoChar, err |-> "", from |-> from]
CharErr(d, e, from) == [d |-> d, tag |-> "Err", ch |-> NoChar, err |-> e, from |-> from]

\* Faulty variant of ReadChar: the character pushed back stays in its slot
ReadCharKeepsUnread(s, d) ==
    IF d.unread_char # NoChar
    THEN CharSome(d, d.unread_char, d.pos)
    ELSE LET r == ReadByte(s, d)
         IN  IF r.b = NoByte THEN CharNone(r.d, d.pos)
             ELSE LET g == GatherBytes(s, r.d, <<r.b>>, Utf8Width(r.b))
                  IN  IF FromUtf8Ok(g.bytes)
                      THEN CharSome(g.d, FirstChar(g.bytes), d.pos)
                      ELSE CharErr(g.d, "NonUtf8Input", d.pos)

\* read_char
ReadChar(s, d) ==
    IF d.unread_char # NoChar
    THEN CharSome([d EXCEPT !.unread_char = NoChar], d.unread_char, d.pos)
    ELSE LET r == ReadByte(s, d)
         IN  IF r.b = NoByte THEN CharNone(r.d, d.pos)
             ELSE LET g == GatherBytes(s, r.d, <<r.b>>, Utf8Width(r.b))
                  IN  IF FromUtf8Ok(g.bytes)
                      THEN CharSome(g.d, FirstChar(g.bytes), d.pos)
                      ELSE CharErr(g.d, "NonUtf8Input", d.pos)

\* the outcome of a read_raw_input / read_input call: the decoder after it and its result
Out(d, res) == [d |-> d, res |-> res]

\* Faulty variant of IsTerminator: '~' does not end a sequence
IsTerminatorLettersOnly(c) == c \in {65, 66, 67, 68, 72, 70}

IsTerminator(c) == c \in {65, 66, 67, 68, 72, 70, 126}

\* the loop `while let Some(ch) = self.read_char()` that accumulates read_buf
RECURSIVE Accumulate(_, _)
Accumulate(s, d) ==
    LET c == ReadChar(s, d)
    IN  IF c.tag = "Err" THEN [d |-> c.d, tag |-> "Err", err |-> c.err]
        ELSE IF c.tag = "None" THEN [d |-> c.d, tag |-> "Ok", err |-> ""]
        ELSE LET d1 == [c.d EXCEPT !.read_buf = Append(@, c.ch)]
             IN  IF IsTerminator(c.ch) THEN [d |-> d1, tag |-> "Ok", err |-> ""]
                 ELSE Accumulate(s, d1)

\* Faulty variant of EscapeInput: a sequence outside the table is an error
EscapeInputStrict(buf) ==
    IF buf \in {<<ESC, LBRACKET, 49, 126>>, <<ESC, LBRACKET, 55, 126>>, <<ESC, LBRACKET, 72>>}
        THEN Some(InputNew(Named("Home")))
    ELSE IF buf = <<ESC, LBRACKET, 51, 126>> THEN Some(InputNew(Named("Delete")))
    ELSE IF buf \in {<<ESC, LBRACKET, 52, 126>>, <<ESC, LBRACKET, 56, 126>>, <<ESC, LBRACKET, 70>>}
        THEN Some(InputNew(Named("End")))
    ELSE IF buf = <<ESC, LBRACKET, 53, 126>> THEN Some(InputNew(Named("PageUp")))
    ELSE IF buf = <<ESC, LBRACKET, 54, 126>> THEN Some(InputNew(Named("PageDown")))
    ELSE IF buf = <<ESC, LBRACKET, 65>> THEN Some(InputNew(Named("ArrowUp")))
    ELSE IF buf = <<ESC, LBRACKET, 66>> THEN Some(InputNew(Named("ArrowDown")))
    ELSE IF buf = <<ESC, LBRACKET, 67>> THEN Some(InputNew(Named("ArrowRight")))
    ELSE IF buf = <<ESC, LBRACKET, 68>> THEN Some(InputNew(Named("ArrowLeft")))
    ELSE Err("UnexpectedEscapeSequence")

\* the match on read_buf: the key of the escape table, or Ctrl+[ for any other sequence
EscapeInput(buf) ==
    IF buf \in {<<ESC, LBRACKET, 49, 126>>, <<ESC, LBRACKET, 55, 126>>, <<ESC, LBRACKET, 72>>}
        THEN Some(InputNew(Named("Home")))
    ELSE IF buf = <<ESC, LBRACKET, 51, 126>> THEN Some(InputNew(Named("Delete")))
    ELSE IF buf \in {<<ESC, LBRACKET, 52, 126>>, <<ESC, LBRACKET, 56, 126>>, <<ESC, LBRACKET, 70>>}
        THEN Some(InputNew(Named("End")))
    ELSE IF buf = <<ESC, LBRACKET, 53, 126>> THEN Some(InputNew(Named("PageUp")))
    ELSE IF buf = <<ESC, LBRACKET, 54, 126>> THEN Some(InputNew(Named("PageDown")))
    ELSE IF buf = <<ESC, LBRACKET, 65>> THEN Some(InputNew(Named("ArrowUp")))
    ELSE IF buf = <<ESC, LBRACKET, 66>> THEN Some(InputNew(Named("ArrowDown")))
    ELSE IF buf = <<ESC, LBRACKET, 67>> THEN Some(InputNew(Named("ArrowRight")))
    ELSE IF buf = <<ESC, LBRACKET, 68>> THEN Some(InputNew(Named("ArrowLeft")))
    ELSE Some(InputCtrl(Char(LBRACKET)))

\* Faulty variant of Xor40: 0x40 added instead of xor-ed
Xor40Added(b) == b + 64

\* (ch as u8 ^ 0x40) as char
Xor40(b) == IF (b \div 64) % 2 = 1 THEN b - 64 ELSE b + 64

\* the arms for a character that is not ESC
PlainInput(c) ==
    IF IsAsciiControl(c) THEN Some(InputCtrl(Char(Xor40(c))))
    ELSE Some(InputNew(Char(c)))

\* set_unread_char: its assertion fails when a character is already pushed back
SetUnreadChar(d, c) ==
    IF d.unread_char # NoChar THEN [ok |-> FALSE, d |-> d]
    ELSE [ok |-> TRUE, d |-> [d EXCEPT !.unread_char = c]]

\* the end of the ESC[ arm, once the sequence is accumulated
SequenceInput(a) ==
    IF a.tag = "Err" THEN Out(a.d, Err(a.err))
    ELSE Out(a.d, EscapeInput(a.d.read_buf))

\* the return after set_unread_char(ch) in read_raw_input
PushedBack(u) ==
    IF u.ok THEN Out(u.d, Some(InputCtrl(Char(LBRACKET))))
    ELSE Out(u.d, Panic)

\* read_raw_input from the character c2 read after ESC
RawAfterEsc(s, c2) ==
    IF c2.tag = "Err" THEN Out(c2.d, Err(c2.err))
    ELSE IF c2.tag = "None" THEN Out(c2.d, Some(InputCtrl(Char(LBRACKET))))
    ELSE IF c2.ch # LBRACKET THEN PushedBack(SetUnreadChar(c2.d, c2.ch))
    ELSE SequenceInput(Accumulate(s, [c2.d EXCEPT !.read_buf = Append(@, c2.ch)]))

\* read_raw_input from its first character c1
RawAfterChar(s, c1) ==
    IF c1.tag = "Err" THEN Out(c1.d, Err(c1.err))
    ELSE IF c1.tag = "None" THEN Out(c1.d, None)
    ELSE IF c1.ch = ESC
    THEN RawAfterEsc(s, ReadChar(s, [c1.d EXCEPT !.read_buf = <<ESC>>]))
    ELSE Out(c1.d, PlainInput(c1.ch))

\* async_decode.rs Decoder::read_raw_input
ReadRawInput(s, d) == RawAfterChar(s, ReadChar(s, d))

\* read_input from the second raw input r2, r1 being Ctrl+[
AfterSecondRaw(r1, r2) ==
    IF r2.res.tag = "Some" THEN Out(r2.d, Some([r2.res.input EXCEPT !.alt = TRUE]))
    ELSE IF r2.res.tag = "None" THEN Out(r2.d, r1.res)
    ELSE r2

\* Faulty variant of AfterFirstRaw: the second raw input is returned as it is
AfterFirstRawAltNotSet(s, r1) ==
    IF r1.res.tag # "Some" THEN r1
    ELSE IF r1.res.input # InputCtrl(Char(LBRACKET)) THEN r1
    ELSE ReadRawInput(s, r1.d)

\* read_input from the first raw input r1
AfterFirstRaw(s, r1) ==
    IF r1.res.tag # "Some" THEN r1
    ELSE IF r1.res.input # InputCtrl(Char(LBRACKET)) THEN r1
    ELSE AfterSecondRaw(r1, ReadRawInput(s, r1.d))

\* async_decode.rs Decoder::read_input
ReadInput(s, d) == AfterFirstRaw(s, ReadRawInput(s, d))

\* the alt flag set on what the recursive read_input returned
WithAlt(r) ==
    IF r.res.tag = "Some" THEN Out(r.d, Some([r.res.input EXCEPT !.alt = TRUE]))
    ELSE r

RECURSIVE SyncReadInput(_, _)

\* the else arm of `if ch == '['`: push ch back and read again
SyncPushedBack(s, u) ==
    IF ~u.ok THEN Out(u.d, Panic)
    ELSE WithAlt(SyncReadInput(s, u.d))

\* decode.rs read_input from the character c2 read after ESC
SyncAfterEsc(s, c2) ==
    IF c2.tag = "Err" THEN Out(c2.d, Err(c2.err))
    ELSE IF c2.tag = "None" THEN Out(c2.d, Some(InputCtrl(Char(LBRACKET))))
    ELSE IF c2.ch = LBRACKET
    THEN SequenceInput(Accumulate(s, [c2.d EXCEPT !.read_buf = Append(@, c2.ch)]))
    ELSE SyncPushedBack(s, SetUnreadChar(c2.d, c2.ch))

\* decode.rs read_input from its first character c1
SyncAfterChar(s, c1) ==
    IF c1.tag = "Err" THEN Out(c1.d, Err(c1.err))
    ELSE IF c1.tag = "None" THEN Out(c1.d, None)
    ELSE IF c1.ch = ESC
    THEN SyncAfterEsc(s, ReadChar(s, [c1.d EXCEPT !.read_buf = <<ESC>>]))
    ELSE Out(c1.d, PlainInput(c1.ch))

\* decode.rs Decoder::read_input
SyncReadInput(s, d) == SyncAfterChar(s, ReadChar(s, d))

----------------------------------------------------------------------------
(* The byte strings the decoders are run on *)

\* ESC [ A ~ a and the two bytes of U+00E9
DecoderBytes == {ESC, LBRACKET, 65, 126, 97, 195, 169}

\* 'a', two continuation bytes and leading bytes of every width class
Utf8Bytes == {97, 128, 160, 192, 195, 224, 237, 240, 244, 248}

ControlBytes == (0 .. 31) \cup {127}

\* the sequences of the escape table, with the key each stands for
EscapeTable ==
    { <<<<ESC, LBRACKET, 65>>, "ArrowUp">>,
      <<<<ESC, LBRACKET, 66>>, "ArrowDown">>,
      <<<<ESC, LBRACKET, 67>>, "ArrowRight">>,
      <<<<ESC, LBRACKET, 68>>, "ArrowLeft">>,
      <<<<ESC, LBRACKET, 72>>, "Home">>,
      <<<<ESC, LBRACKET, 49, 126>>, "Home">>,
      <<<<ESC, LBRACKET, 55, 126>>, "Home">>,
      <<<<ESC, LBRACKET, 70>>, "End">>,
      <<<<ESC, LBRACKET, 52, 126>>, "End">>,
      <<<<ESC, LBRACKET, 56, 126>>, "End">>,
      <<<<ESC, LBRACKET, 51, 126>>, "Delete">>,
      <<<<ESC, LBRACKET, 53, 126>>, "PageUp">>,
      <<<<ESC, LBRACKET, 54, 126>>, "PageDown">> }

\* sequences that end in a terminator and are in no row of the table
UnknownSequences ==
    { <<ESC, LBRACKET, 50, 126>>, <<ESC, LBRACKET, 57, 126>>,
      <<ESC, LBRACKET, 49, 53, 126>>, <<ESC, LBRACKET, 49, 59, 53, 67>>,
      <<ESC, LBRACKET, 51>>, <<ESC, LBRACKET, 90>> }

KeySequences == {e[1] : e \in EscapeTable} \cup UnknownSequences

DecoderStreams ==
    SeqsUpTo(DecoderBytes, MaxStreamLen)
    \cup {<<b>> : b \in ControlBytes}
    \cup {<<ESC, b>> : b \in ControlBytes}
    \cup KeySequences
    \cup {q \o <<b>> : q \in KeySequences, b \in {97, 5, ESC}}
    \cup {<<ESC>> \o q : q \in KeySequences}
    \* "abcdeABCDE" and the UTF-8 bytes of U+3042 U+1F4DD U+1F980
    \cup {<<97, 98, 99, 100, 101, 65, 66, 67, 68, 69,
           227, 129, 130, 240, 159, 147, 157, 240, 159, 166, 128>>}

Utf8Streams == SeqsUpTo(Utf8Bytes, MaxStreamLen)

----------------------------------------------------------------------------
(* The decoder's state machine *)

RowIdle == row_chars = <<>> /\ trace = <<>>

\* no render iterator was made
NoRender == [api |-> "none"]
RenderIdle == render = NoRender

\* no TextBuffer was constructed, no search started
NoBuffer == [rows |-> <<>>]
NoFind == [api |-> "none"]
NoHist == [edits |-> 0, budget |-> 0, calls |-> <<>>]
\* no Editor was constructed
NoEditor == [buffer_view |-> <<>>]
NoKeyMap == [calls |-> 0]
NoConv == [api |-> "none"]
LibIdle == keymap = NoKeyMap /\ conv = NoConv
EditorIdle == editor = NoEditor /\ LibIdle
BufferIdle == buffer = NoBuffer /\ find = NoFind /\ hist = NoHist /\ EditorIdle
DecoderIdle ==
    /\ impl = "none" /\ input = <<>> /\ dec = NewDecoder
    /\ events = <<>> /\ char_events = <<>>

\* Decoder::new over Cursor::new(input)
InitDecoder ==
    /\ impl \in {"async_decode", "decode"}
    /\ input \in DecoderStreams
    /\ dec = NewDecoder
    /\ events = <<>>
    /\ char_events = <<>>
    /\ RowIdle /\ RenderIdle /\ BufferIdle

\* the callers stop at the first None (end of input) and at the first error
Reading(log) == IF log = <<>> THEN TRUE ELSE log[Len(log)].tag = "Some"

\* async_decode::Decoder::read_input
AsyncReadInputCall ==
    /\ impl = "async_decode"
    /\ Reading(events)
    /\ LET r == ReadInput(input, dec)
       IN  /\ dec' = r.d
           /\ events' = Append(events, r.res)
    /\ UNCHANGED <<impl, input, char_events, row_chars, trace, render, bufVars>>

\* decode::Decoder::read_input
SyncReadInputCall ==
    /\ impl = "decode"
    /\ Reading(events)
    /\ LET r == SyncReadInput(input, dec)
       IN  /\ dec' = r.d
           /\ events' = Append(events, r.res)
    /\ UNCHANGED <<impl, input, char_events, row_chars, trace, render, bufVars>>

NextDecoder == AsyncReadInputCall \/ SyncReadInputCall

SpecDecoder == InitDecoder /\ [][NextDecoder]_vars

\* The read_char loop of the decode_char tests
InitReadChar ==
    /\ impl \in {"async_decode", "decode"}
    /\ input \in Utf8Streams
    /\ dec = NewDecoder
    /\ events = <<>>
    /\ char_events = <<>>
    /\ RowIdle /\ RenderIdle /\ BufferIdle

ReadCharCall ==
    /\ Reading(char_events)
    /\ LET c == ReadChar(input, dec)
       IN  /\ dec' = c.d
           /\ char_events' = Append(char_events,
                [tag |-> c.tag, ch |-> c.ch, err |-> c.err, from |-> c.from, to |-> c.d.pos])
    /\ UNCHANGED <<impl, input, events, row_chars, trace, render, bufVars>>

NextReadChar == ReadCharCall

SpecReadChar == InitReadChar /\ [][NextReadChar]_vars

----------------------------------------------------------------------------
(* UTF-8 as RFC 3629 defines it, for stating the claims *)

IsScalar(c) == c >= 0 /\ c <= 1114111 /\ ~(c >= 55296 /\ c <= 57343)

Utf8Encode(c) ==
    IF c < 128 THEN <<c>>
    ELSE IF c < 2048 THEN <<192 + (c \div 64), 128 + (c % 64)>>
    ELSE IF c < 65536
    THEN <<224 + (c \div 4096), 128 + ((c \div 64) % 64), 128 + (c % 64)>>
    ELSE <<240 + (c \div 262144), 128 + ((c \div 4096) % 64),
           128 + ((c \div 64) % 64), 128 + (c % 64)>>

\* the only code point a byte string of 1..4 bytes can be the encoding of
Candidate(g) ==
    IF Len(g) = 1 THEN g[1]
    ELSE IF Len(g) = 2 THEN (g[1] - 192) * 64 + (g[2] - 128)
    ELSE IF Len(g) = 3 THEN (g[1] - 224) * 4096 + (g[2] - 128) * 64 + (g[3] - 128)
    ELSE (g[1] - 240) * 262144 + (g[2] - 128) * 4096 + (g[3] - 128) * 64 + (g[4] - 128)

IsEncoding(g) ==
    /\ Len(g) >= 1 /\ Len(g) <= 4
    /\ IsScalar(Candidate(g))
    /\ Utf8Encode(Candidate(g)) = g

\* the characters a byte string encodes; ok is FALSE when it is not valid UTF-8
RECURSIVE Utf8Chars(_)
Utf8Chars(s) ==
    IF s = <<>> THEN [ok |-> TRUE, chars |-> <<>>]
    ELSE LET ns == {n \in 1 .. Min(4, Len(s)) : IsEncoding(SubSeq(s, 1, n))}
         IN  IF ns = {} THEN [ok |-> FALSE, chars |-> <<>>]
             ELSE LET n == CHOOSE m \in ns : TRUE
                      rest == Utf8Chars(SubSeq(s, n + 1, Len(s)))
                  IN  [ok |-> rest.ok,
                       chars |-> <<Candidate(SubSeq(s, 1, n))>> \o rest.chars]

\* the fold table of the control bytes: "@ABCDEFGHIJKLMNOPQRSTUVWXYZ[\]^_" and "?"
Fold(b) == IF b = 127 THEN 63 ELSE b + 64

\* what the constructed decoder returns for a byte string given to it alone
Own(r) == IF impl = "async_decode" THEN ReadInput(r, NewDecoder) ELSE SyncReadInput(r, NewDecoder)

Done(log) == log # <<>> /\ log[Len(log)].tag = "None"

----------------------------------------------------------------------------
(* Claims about the decoder *)

\* C1: for a valid UTF-8 string without control or escape characters, the
\* read_input calls return one Char(c) event per character, in order, with
\* ctrl and alt false, and then None.
C1_PlainTextDecodesToItsChars ==
    LET r == Utf8Chars(input)
    IN  (r.ok /\ \A i \in 1 .. Len(r.chars) : ~IsControl(r.chars[i]))
        => \A k \in 1 .. Len(events) :
              IF k <= Len(r.chars)
              THEN events[k] = Some([key |-> Char(r.chars[k]), ctrl |-> FALSE, alt |-> FALSE])
              ELSE k = Len(r.chars) + 1 /\ events[k] = None

C1_Witness ==
    LET r == Utf8Chars(input)
    IN  /\ r.ok /\ Len(r.chars) >= 3
        /\ \A i \in 1 .. Len(r.chars) : ~IsControl(r.chars[i])
        /\ \E i \in 1 .. Len(r.chars) : r.chars[i] >= 128
        /\ Len(events) = Len(r.chars) + 1
        /\ Done(events)

\* C2: a stream holding only one control byte b (0x00..0x1F or 0x7F) decodes
\* to exactly one event, Ctrl + the folded character of b, alt false.
C2_ControlByteFolds ==
    \A b \in ControlBytes :
        input = <<b>> =>
            /\ Len(events) >= 1 =>
                  events[1] = Some([key |-> Char(Fold(b)), ctrl |-> TRUE, alt |-> FALSE])
            /\ Len(events) >= 2 => events[2] = None

C2_Witness == input = <<127>> /\ Len(events) = 2 /\ events[1].input.key = Char(63)

\* r, given alone, is one key without Alt: one event, all of r consumed
SingleKey(r) ==
    LET o == Own(r)
    IN  /\ o.res.tag = "Some" /\ ~o.res.input.alt
        /\ o.d.pos = Len(r) + 1 /\ o.d.unread_char = NoChar

\* C3: ESC at the end of the stream is Ctrl+[ without Alt; ESC followed by a
\* key k that does not start with '[' is the event of k alone with alt set
\* and ctrl unchanged (k a character followed by anything, or an ESC-led key
\* that ends the stream).
C3_EscThenKeyIsAlt ==
    /\ (input = <<ESC>> /\ events # <<>>)
          => events[1] = Some([key |-> Char(LBRACKET), ctrl |-> TRUE, alt |-> FALSE])
    /\ \A b \in 0 .. 127 :
          (input = <<ESC, b>> /\ b # LBRACKET /\ events # <<>>)
          => events[1] = Some([key |-> Char(IF b < 32 \/ b = 127 THEN Fold(b) ELSE b),
                               ctrl |-> (b < 32 \/ b = 127), alt |-> TRUE])
    /\ (Len(input) >= 2 /\ input[1] = ESC /\ input[2] # LBRACKET /\ events # <<>>)
          => \A n \in 2 .. Len(input) :
                LET r == SubSeq(input, 2, n)
                IN  (SingleKey(r) /\ (r[1] # ESC \/ n = Len(input)))
                    => events[1] = Some([Own(r).res.input EXCEPT !.alt = TRUE])

C3_Witness ==
    /\ input = <<ESC, 5>> /\ events # <<>>
    /\ events[1] = Some([key |-> Char(69), ctrl |-> TRUE, alt |-> TRUE])

\* C4: on a valid UTF-8 stream no read_input call returns an error (or
\* panics), whatever escape sequences the stream holds.
C4_ValidStreamNeverErrs ==
    Utf8Chars(input).ok => \A k \in 1 .. Len(events) : events[k].tag \in {"Some", "None"}

C4_Witness ==
    /\ input \in {q \o <<97>> : q \in UnknownSequences} \cup {<<ESC, LBRACKET>>}
    /\ Done(events)

\* the index of the first terminator of the sequence that starts input, or
\* the last index when the stream ends before one
RECURSIVE SequenceEnd(_, _)
SequenceEnd(s, i) ==
    IF i >= Len(s) THEN Len(s)
    ELSE IF s[i] \in {65, 66, 67, 68, 72, 70, 126} THEN i
    ELSE SequenceEnd(s, i + 1)

StartsSequence(s) == Len(s) >= 2 /\ s[1] = ESC /\ s[2] = LBRACKET

\* C5: an ESC[ sequence that is in no row of the escape table is delivered as
\* Ctrl+[ with alt false, whatever follows it, and what follows is decoded as
\* events of its own.
C5_UnknownSequenceIsEscape ==
    (StartsSequence(input) /\ Utf8Chars(input).ok)
    => LET n == SequenceEnd(input, 3)
           rest == SubSeq(input, n + 1, Len(input))
       IN  SubSeq(input, 1, n) \notin {e[1] : e \in EscapeTable}
           => /\ Len(events) >= 1
                    => events[1] = Some([key |-> Char(LBRACKET), ctrl |-> TRUE, alt |-> FALSE])
              /\ Len(events) >= 2 => events[2] = Own(rest).res

\* C6: a stream that starts with a sequence of the escape table gives that
\* row's key, ctrl and alt false, and the call reads up to the terminator and
\* not beyond it.
C6_EscapeTable ==
    \A e \in EscapeTable :
        (Len(input) >= Len(e[1]) /\ SubSeq(input, 1, Len(e[1])) = e[1] /\ events # <<>>)
        => /\ events[1] = Some([key |-> Named(e[2]), ctrl |-> FALSE, alt |-> FALSE])
           /\ Len(events) = 1
                 => /\ dec.pos = Len(e[1]) + 1
                    /\ dec.unread_char = NoChar
                    /\ dec.read_buf = e[1]

C6_Witness ==
    /\ input = <<ESC, LBRACKET, 51, 126, 97>>
    /\ Len(events) = 1 /\ events[1].input.key = Named("Delete")
    /\ dec.pos = 5

\* the width class the leading byte asks for
ClassWidth(b) ==
    IF b < 128 THEN 1 ELSE IF b < 192 THEN 0 ELSE IF b < 224 THEN 2
    ELSE IF b < 240 THEN 3 ELSE IF b < 248 THEN 4 ELSE 0

\* C7: read_char gathers the leading byte and the continuation bytes its
\* width class asks for (fewer at the end of the stream); it returns
\* NonUtf8Input exactly when they are not the encoding of a character, None
\* exactly when the first read is at the end of the stream, and otherwise the
\* character they encode.
C7_ReadCharResults ==
    \A k \in 1 .. Len(char_events) :
        LET e == char_events[k]
            g == SubSeq(input, e.from, e.to - 1)
        IN  /\ (e.tag = "None") = (e.from > Len(input))
            /\ e.from <= Len(input)
                  => /\ Len(g) = Min(Max(1, ClassWidth(g[1])), Len(input) - e.from + 1)
                     /\ (e.tag = "Err") = ~IsEncoding(g)
                     /\ e.tag = "Err" => e.err = "NonUtf8Input"
                     /\ e.tag = "Some" => (IsScalar(e.ch) /\ Utf8Encode(e.ch) = g)
                     /\ ((g[1] >= 128 /\ g[1] <= 191) \/ g[1] >= 248) => e.tag = "Err"
                     /\ Len(g) < ClassWidth(g[1]) => e.tag = "Err"

C7_Witness ==
    /\ Len(char_events) = 2
    /\ char_events[1].tag = "Some" /\ char_events[1].ch >= 65536
    /\ char_events[2].tag = "None"

C7_WitnessCutShort ==
    /\ Len(char_events) = 2
    /\ char_events[1].tag = "Some"
    /\ char_events[2].tag = "Err" /\ char_events[2].to = Len(input) + 1
    /\ input[char_events[2].from] >= 224

----------------------------------------------------------------------------
(* Row: byte offsets and render columns (row.rs), and the same mapping on a
   str that starts at a given column (render.rs) *)

TAB_STOP == 8

\* UnicodeWidthChar::width of a character that is not a control character:
\* 0 for combining marks and zero-width spaces, 2 for East Asian wide and
\* fullwidth characters, 1 otherwise
UnicodeWidth(c) ==
    IF (c >= 768 /\ c <= 879) \/ (c >= 8203 /\ c <= 8207) THEN 0
    ELSE IF \/ (c >= 4352 /\ c <= 4447)
            \/ (c >= 11904 /\ c <= 42191)
            \/ (c >= 44032 /\ c <= 55203)
            \/ (c >= 63744 /\ c <= 64255)
            \/ (c >= 65280 /\ c <= 65376)
            \/ (c >= 127744 /\ c <= 129791)
            \/ (c >= 131072 /\ c <= 262141)
         THEN 2
    ELSE 1

\* the byte index char_indices gives the k-th character (k = Len + 1: the length of the string)
RECURSIVE ByteIdx(_, _)
ByteIdx(chars, k) == IF k <= 1 THEN 0 ELSE ByteIdx(chars, k - 1) + LenUtf8(chars[k - 1])

StrLen(chars) == ByteIdx(chars, Len(chars) + 1)

IsCharBoundary(chars, cx) == \E k \in 1 .. Len(chars) + 1 : ByteIdx(chars, k) = cx

\* the number of characters before the boundary cx
CharsBefore(chars, cx) == CHOOSE k \in 0 .. Len(chars) : ByteIdx(chars, k + 1) = cx

\* Faulty variant of Build: the tab width taken modulo TAB_STOP
BuildTabWidthModulo(idx, ch, cur_col) ==
    IF ch = TAB
    THEN [idx |-> idx, width |-> (TAB_STOP - (cur_col % TAB_STOP)) % TAB_STOP,
          kind |-> "Padding"]
    ELSE IF IsAsciiControl(ch) THEN [idx |-> idx, width |-> 2, kind |-> "AsciiControl"]
    ELSE IF IsControl(ch)
    THEN [idx |-> idx, width |-> IF ch <= 65535 THEN 6 ELSE 7, kind |-> "UnicodeControl"]
    ELSE [idx |-> idx, width |-> UnicodeWidth(ch), kind |-> "Char"]

\* row.rs RenderItem::build
Build(idx, ch, cur_col) ==
    IF ch = TAB
    THEN [idx |-> idx, width |-> TAB_STOP - (cur_col % TAB_STOP), kind |-> "Padding"]
    ELSE IF IsAsciiControl(ch) THEN [idx |-> idx, width |-> 2, kind |-> "AsciiControl"]
    ELSE IF IsControl(ch)
    THEN [idx |-> idx, width |-> IF ch <= 65535 THEN 6 ELSE 7, kind |-> "UnicodeControl"]
    ELSE [idx |-> idx, width |-> UnicodeWidth(ch), kind |-> "Char"]

\* render.rs RenderItem::build
StrBuild(ch, cur_col) ==
    IF ch = TAB
    THEN [width |-> TAB_STOP - (cur_col % TAB_STOP), kind |-> "Padding"]
    ELSE IF IsAsciiControl(ch) THEN [width |-> 2, kind |-> "AsciiControl"]
    ELSE IF IsControl(ch)
    THEN [width |-> IF ch <= 65535 THEN 6 ELSE 7, kind |-> "UnicodeControl"]
    ELSE [width |-> UnicodeWidth(ch), kind |-> "Char"]

\* the items a loop built, each with the column it was built at
Item(it, k, col) == [k |-> k, col |-> col, width |-> it.width, kind |-> it.kind]

\* the loop of get_rx_from_cx over the first n characters, from character k on
RECURSIVE RxLoop(_, _, _, _, _)
RxLoop(chars, k, n, cur_col, items) ==
    IF k > n THEN [rx |-> cur_col, items |-> items]
    ELSE LET item == Build(ByteIdx(chars, k), chars[k], cur_col)
         IN  RxLoop(chars, k + 1, n, cur_col + item.width, Append(items, Item(item, k, cur_col)))

\* Row::get_rx_from_cx; slicing chars[..cx] panics off a character boundary
GetRxFromCx(chars, cx) ==
    IF cx > StrLen(chars) \/ ~IsCharBoundary(chars, cx)
    THEN [panic |-> TRUE, res |-> 0, items |-> <<>>]
    ELSE LET l == RxLoop(chars, 1, CharsBefore(chars, cx), 0, <<>>)
         IN  [panic |-> FALSE, res |-> l.rx, items |-> l.items]

\* Faulty variant of CxLoop: without the return at rx = cur_col
RECURSIVE CxLoopNoColumnTest(_, _, _, _)
CxLoopNoColumnTest(chars, k, cur_col, rx) ==
    IF k > Len(chars) THEN StrLen(chars)
    ELSE LET item == Build(ByteIdx(chars, k), chars[k], cur_col)
         IN  IF cur_col + item.width > rx THEN item.idx
             ELSE CxLoopNoColumnTest(chars, k + 1, cur_col + item.width, rx)

\* Faulty variant of CxLoop: >= where the code compares with >
RECURSIVE CxLoopOffByOne(_, _, _, _)
CxLoopOffByOne(chars, k, cur_col, rx) ==
    IF k > Len(chars) THEN StrLen(chars)
    ELSE IF rx = cur_col THEN ByteIdx(chars, k)
    ELSE LET item == Build(ByteIdx(chars, k), chars[k], cur_col)
         IN  IF cur_col + item.width >= rx THEN item.idx
             ELSE CxLoopOffByOne(chars, k + 1, cur_col + item.width, rx)

RECURSIVE CxLoop(_, _, _, _)
CxLoop(chars, k, cur_col, rx) ==
    IF k > Len(chars) THEN StrLen(chars)
    ELSE IF rx = cur_col THEN ByteIdx(chars, k)
    ELSE LET item == Build(ByteIdx(chars, k), chars[k], cur_col)
         IN  IF cur_col + item.width > rx THEN item.idx
             ELSE CxLoop(chars, k + 1, cur_col + item.width, rx)

\* Row::get_cx_from_rx
GetCxFromRx(chars, rx) == [panic |-> FALSE, res |-> CxLoop(chars, 1, 0, rx), items |-> <<>>]

RECURSIVE WidthLoop(_, _, _, _)
WidthLoop(chars, k, cur_col, items) ==
    IF k > Len(chars) THEN [rx |-> cur_col, items |-> items]
    ELSE LET item == StrBuild(chars[k], cur_col)
         IN  WidthLoop(chars, k + 1, cur_col + item.width, Append(items, Item(item, k, cur_col)))

\* RenderStrExt::render_width
RenderWidth(chars, start_col) ==
    LET l == WidthLoop(chars, 1, start_col, <<>>)
    IN  [panic |-> FALSE, res |-> l.rx, items |-> l.items]

RECURSIVE StrCxLoop(_, _, _, _)
StrCxLoop(chars, k, cur_col, rx) ==
    IF k > Len(chars) THEN StrLen(chars)
    ELSE IF rx <= cur_col THEN ByteIdx(chars, k)
    ELSE LET item == StrBuild(chars[k], cur_col)
         IN  IF cur_col + item.width > rx THEN ByteIdx(chars, k)
             ELSE StrCxLoop(chars, k + 1, cur_col + item.width, rx)

\* RenderStrExt::cx_from_rx
CxFromRx(chars, start_col, rx) ==
    [panic |-> FALSE, res |-> StrCxLoop(chars, 1, start_col, rx), items |-> <<>>]

----------------------------------------------------------------------------
(* The rows the mapping is run on *)

\* tab, 'a', U+0001, U+0085, U+3042 (wide) and U+0301 (combining, zero width)
RowChars == {TAB, 97, 1, 133, 12354, 769}

\* the column a str is rendered from
StartCols == {0, 5}

RowTexts == SeqsUpTo(RowChars, MaxRowLen)

\* the column after the last character of the row
RowWidth(chars) == RxLoop(chars, 1, Len(chars), 0, <<>>).rx

Call(op, start, arg, out) ==
    [op |-> op, start |-> start, arg |-> arg,
     panic |-> out.panic, res |-> out.res, items |-> out.items]

Inverse(op) ==
    IF op = "get_rx_from_cx" THEN "get_cx_from_rx"
    ELSE IF op = "get_cx_from_rx" THEN "get_rx_from_cx"
    ELSE IF op = "render_width" THEN "cx_from_rx"
    ELSE "render_width"

\* A run maps one offset or column, and may then give the result to the
\* inverse function of the same row (and the same start column).
CanCall(op, start, arg) ==
    IF trace = <<>> THEN TRUE
    ELSE /\ Len(trace) = 1
         /\ trace[1].op = Inverse(op) /\ trace[1].start = start
         /\ ~trace[1].panic /\ trace[1].res = arg

\* Row::new
InitRow ==
    /\ row_chars \in RowTexts
    /\ trace = <<>>
    /\ DecoderIdle /\ RenderIdle /\ BufferIdle

GetRxFromCxCall ==
    /\ \E cx \in 0 .. StrLen(row_chars) :
          /\ CanCall("get_rx_from_cx", 0, cx)
          /\ trace' = Append(trace, Call("get_rx_from_cx", 0, cx, GetRxFromCx(row_chars, cx)))
    /\ UNCHANGED <<row_chars, decVars, render, bufVars>>

GetCxFromRxCall ==
    /\ \E rx \in 0 .. RowWidth(row_chars) + 1 :
          /\ CanCall("get_cx_from_rx", 0, rx)
          /\ trace' = Append(trace, Call("get_cx_from_rx", 0, rx, GetCxFromRx(row_chars, rx)))
    /\ UNCHANGED <<row_chars, decVars, render, bufVars>>

\* s[..cx].render_width(start_col), s the text of the row
RenderWidthCall ==
    /\ \E start \in StartCols, k \in 0 .. Len(row_chars) :
          /\ CanCall("render_width", start, ByteIdx(row_chars, k + 1))
          /\ trace' = Append(trace, Call("render_width", start, ByteIdx(row_chars, k + 1),
                                         RenderWidth(SubSeq(row_chars, 1, k), start)))
    /\ UNCHANGED <<row_chars, decVars, render, bufVars>>

\* s.cx_from_rx(start_col, rx)
CxFromRxCall ==
    /\ \E start \in StartCols, rx \in 0 .. RowWidth(row_chars) + 9 :
          /\ CanCall("cx_from_rx", start, rx)
          /\ trace' = Append(trace, Call("cx_from_rx", start, rx, CxFromRx(row_chars, start, rx)))
    /\ UNCHANGED <<row_chars, decVars, render, bufVars>>

NextRow == GetRxFromCxCall \/ GetCxFromRxCall \/ RenderWidthCall \/ CxFromRxCall

SpecRow == InitRow /\ [][NextRow]_vars

----------------------------------------------------------------------------
(* Claims about the column mapping *)

Forward(op) == op \in {"get_rx_from_cx", "render_width"}

\* the first of the zero-width items that end the sequence (Len + 1 when the
\* last item has a width)
RECURSIVE ZeroRunStart(_, _)
ZeroRunStart(items, k) ==
    IF k = 0 THEN 1
    ELSE IF items[k].width > 0 THEN k + 1
    ELSE ZeroRunStart(items, k - 1)

\* C8 as stated: for every row text and every character boundary cx,
\* get_cx_from_rx(get_rx_from_cx(cx)) = cx.
C8_RoundTripAtEveryBoundary ==
    (Len(trace) = 2 /\ trace[1].op = "get_rx_from_cx") => trace[2].res = trace[1].arg

\* C8 as amended: get_cx_from_rx(get_rx_from_cx(cx)) is the smallest character
\* boundary with the render column of cx: cx itself unless the character that
\* ends at cx has zero width, and else the offset of the first of the
\* zero-width characters that end at cx.
C8_RoundTripToFirstBoundaryOfColumn ==
    (Len(trace) = 2 /\ Forward(trace[1].op))
    => LET items == trace[1].items
       IN  /\ trace[2].res = ByteIdx(row_chars, ZeroRunStart(items, Len(items)))
           /\ (items = <<>> \/ items[Len(items)].width > 0) => trace[2].res = trace[1].arg
           /\ \A k \in 1 .. Len(row_chars) + 1 :
                 ByteIdx(row_chars, k) < trace[2].res
                 => WidthLoop(SubSeq(row_chars, 1, k - 1), 1, trace[1].start, <<>>).rx
                       < trace[1].res

C8_Witness ==
    /\ Len(trace) = 2 /\ trace[1].op = "get_rx_from_cx"
    /\ row_chars = <<97, TAB, 12354>>
    /\ trace[1].arg = 5 /\ trace[1].res = 10 /\ trace[2].res = 5

C8_WitnessZeroWidth ==
    /\ Len(trace) = 2 /\ trace[1].op = "get_rx_from_cx"
    /\ row_chars = <<97, 769, 769>>
    /\ trace[1].arg = 5 /\ trace[1].res = 1 /\ trace[2].res = 1

AsciiNoTabs(chars) == \A i \in 1 .. Len(chars) : chars[i] < 128 /\ chars[i] # TAB

\* the width of a character of ASCII text without tabs
AsciiWidth(c) == IF c < 32 \/ c = 127 THEN 2 ELSE 1

RECURSIVE AsciiColumn(_, _)
AsciiColumn(chars, k) == IF k = 0 THEN 0 ELSE AsciiColumn(chars, k - 1) + AsciiWidth(chars[k])

\* C9: on a row of ASCII text without tabs every offset in 0..len maps to a
\* column, get_cx_from_rx(get_rx_from_cx(cx)) = cx, and
\* get_rx_from_cx(get_cx_from_rx(rx)) = rx for every column rx that is the
\* column of an offset.
C9_AsciiInverses ==
    AsciiNoTabs(row_chars)
    => /\ \A i \in 1 .. Len(trace) :
             trace[i].op = "get_rx_from_cx"
             => ~trace[i].panic /\ trace[i].res = AsciiColumn(row_chars, trace[i].arg)
       /\ (Len(trace) = 2 /\ trace[1].op = "get_rx_from_cx")
             => trace[2].res = trace[1].arg
       /\ (Len(trace) = 2 /\ trace[1].op = "get_cx_from_rx"
             /\ \E k \in 0 .. Len(row_chars) : AsciiColumn(row_chars, k) = trace[1].arg)
             => trace[2].res = trace[1].arg

C9_Witness ==
    /\ row_chars = <<97, 1, 97>>
    /\ Len(trace) = 2 /\ trace[1].op = "get_cx_from_rx"
    /\ trace[1].arg = 3 /\ trace[1].res = 2 /\ trace[2].res = 3

C9_WitnessForward ==
    /\ row_chars = <<1, 97>>
    /\ Len(trace) = 2 /\ trace[1].op = "get_rx_from_cx"
    /\ trace[1].arg = 1 /\ trace[1].res = 2 /\ trace[2].res = 1

\* C10: a tab built at column c has width 8 - (c mod 8), which puts the next
\* column on the next multiple of 8 above c; an ASCII control character (other
\* than the tab) has width 2, a control character outside ASCII width 6 up to
\* U+FFFF and 7 above.  Each item is built at the column the items before it
\* end at.
C10_ItemWidths ==
    \A i \in 1 .. Len(trace) :
        LET items == trace[i].items
        IN  \A j \in 1 .. Len(items) :
                LET ch == row_chars[items[j].k]
                    c == items[j].col
                    w == items[j].width
                IN  /\ c = IF j = 1 THEN trace[i].start
                           ELSE items[j - 1].col + items[j - 1].width
                    /\ ch = 9 => /\ w = 8 - (c % 8)
                                 /\ (c + w) % 8 = 0 /\ c + w > c /\ c + w <= c + 8
                    /\ ((ch < 32 \/ ch = 127) /\ ch # 9) => w = 2
                    /\ (ch >= 128 /\ ch <= 159) => w = (IF ch <= 65535 THEN 6 ELSE 7)

C10_Witness ==
    /\ row_chars = <<133, TAB, 1>>
    /\ Len(trace) = 1 /\ trace[1].op = "get_rx_from_cx"
    /\ Len(trace[1].items) = 3
    /\ trace[1].items[2].col = 6 /\ trace[1].items[2].width = 2
    /\ trace[1].res = 10

C10_WitnessStartColumn ==
    /\ row_chars = <<TAB, TAB>>
    /\ Len(trace) = 1 /\ trace[1].op = "render_width" /\ trace[1].start = 5
    /\ trace[1].res = 16

----------------------------------------------------------------------------
(* Column-windowed rendering: row.rs Render, render.rs RenderIndicesWithin *)

\* geom.rs Segment::range
SegRange(seg) == [start |-> seg.origin, end |-> seg.origin + seg.size]

\* Row::render and RenderStrExt::render_indices_within: the iterator before
\* its first next(); k is the position of char_indices
NewRender(api, start_col, seg) ==
    [api |-> api, seg |-> seg, start |-> start_col, k |-> 1, cur_col |-> start_col,
     out |-> <<>>, done |-> FALSE]

NoItem == [k |-> 0, idx |-> 0, width |-> 0, kind |-> "None"]
Emit(it, some, item) == [it |-> it, some |-> some, item |-> item]

\* RenderItem::padding
PaddingItem(k, idx, width) == [k |-> k, idx |-> idx, width |-> width, kind |-> "Padding"]

\* row.rs Render::next
RECURSIVE RowRenderNext(_, _)
RowRenderNext(chars, it) ==
    IF it.k > Len(chars) THEN Emit(it, FALSE, NoItem)
    ELSE IF it.cur_col >= SegRange(it.seg).end
    THEN Emit([it EXCEPT !.k = @ + 1], FALSE, NoItem)
    ELSE LET item == Build(ByteIdx(chars, it.k), chars[it.k], it.cur_col)
             col_e == it.cur_col + item.width
             scr == SegRange(it.seg)
             after == [it EXCEPT !.k = @ + 1, !.cur_col = col_e]
         IN  IF col_e <= scr.start THEN RowRenderNext(chars, after)
             ELSE IF it.cur_col < scr.start
             THEN Emit(after, TRUE, PaddingItem(it.k, item.idx, col_e - scr.start))
             ELSE IF col_e > scr.end
             THEN Emit(after, TRUE, PaddingItem(it.k, item.idx, scr.end - it.cur_col))
             ELSE Emit(after, TRUE,
                       [k |-> it.k, idx |-> item.idx, width |-> item.width, kind |-> item.kind])

\* render.rs RenderIndicesWithin::next
RECURSIVE StrRenderNext(_, _)
StrRenderNext(chars, it) ==
    IF it.k > Len(chars) THEN Emit(it, FALSE, NoItem)
    ELSE IF it.cur_col >= SegRange(it.seg).end
    THEN Emit([it EXCEPT !.k = @ + 1], FALSE, NoItem)
    ELSE LET item == StrBuild(chars[it.k], it.cur_col)
             col_e == it.cur_col + item.width
             scr == SegRange(it.seg)
             after == [it EXCEPT !.k = @ + 1, !.cur_col = col_e]
         IN  IF col_e <= scr.start THEN StrRenderNext(chars, after)
             ELSE IF col_e > scr.end THEN Emit(after, FALSE, NoItem)
             ELSE IF it.cur_col < scr.start
             THEN Emit(after, TRUE,
                       PaddingItem(it.k, ByteIdx(chars, it.k), col_e - scr.start))
             ELSE Emit(after, TRUE,
                       [k |-> it.k, idx |-> ByteIdx(chars, it.k),
                        width |-> item.width, kind |-> item.kind])

\* the column ranges rows are rendered within
SegOrigins == {0, 1, 3, 9}
SegSizes == {1, 2, 6}
RenderSegments == {[origin |-> o, size |-> z] : o \in SegOrigins, z \in SegSizes}

\* Row::new with a render segment, Row::render; s.render_indices_within(start_col, seg)
InitRender ==
    /\ row_chars \in RowTexts
    /\ trace = <<>>
    /\ render \in {NewRender("row", 0, seg) : seg \in RenderSegments}
             \cup {NewRender("render", start, seg) : start \in StartCols, seg \in RenderSegments}
    /\ DecoderIdle /\ BufferIdle

\* the for loops over the iterator: next() until it returns None
Rendered(e) ==
    [e.it EXCEPT !.out = IF e.some THEN Append(@, e.item) ELSE @, !.done = ~e.some]

RowRenderNextCall ==
    /\ render.api = "row" /\ ~render.done
    /\ render' = Rendered(RowRenderNext(row_chars, render))
    /\ UNCHANGED <<row_chars, trace, decVars, bufVars>>

StrRenderNextCall ==
    /\ render.api = "render" /\ ~render.done
    /\ render' = Rendered(StrRenderNext(row_chars, render))
    /\ UNCHANGED <<row_chars, trace, decVars, bufVars>>

NextRender == RowRenderNextCall \/ StrRenderNextCall

SpecRender == InitRender /\ [][NextRender]_vars

----------------------------------------------------------------------------
(* Claims about column-windowed rendering *)

\* the characters of the row, each with the column it starts at, its width
\* and the kind of its own item
Columns ==
    IF render.api = "row" THEN RxLoop(row_chars, 1, Len(row_chars), 0, <<>>).items
    ELSE WidthLoop(row_chars, 1, render.start, <<>>).items

Emitted(k) == {j \in 1 .. Len(render.out) : render.out[j].k = k}

\* C11: once the row is rendered within [start, end), every character whose
\* columns overlap the range has emitted exactly one item, its own item when
\* its columns lie inside the range and else a padding block as wide as the
\* overlap, and a character whose columns lie outside the range has emitted
\* nothing.
C11_WindowedItems ==
    (render.api # "none" /\ render.done)
    => \A k \in 1 .. Len(row_chars) :
          LET col_s == Columns[k].col
              col_e == Columns[k].col + Columns[k].width
              scr == SegRange(render.seg)
          IN  /\ (col_e > col_s /\ col_s < scr.end /\ col_e > scr.start)
                 => /\ Cardinality(Emitted(k)) = 1
                    /\ \A j \in Emitted(k) :
                          IF col_s >= scr.start /\ col_e <= scr.end
                          THEN /\ render.out[j].kind = Columns[k].kind
                               /\ render.out[j].width = Columns[k].width
                          ELSE /\ render.out[j].kind = "Padding"
                               /\ render.out[j].width
                                     = Min(col_e, scr.end) - Max(col_s, scr.start)
              /\ (col_e > col_s /\ ~(col_s < scr.end /\ col_e > scr.start))
                 => Emitted(k) = {}

----------------------------------------------------------------------------
(* The syntax rule tables and the lexer (syntax.rs).  A text is a sequence  *)
(* of code points; markers and keywords are texts.  The lexer walks the     *)
(* text by characters and tags it by bytes.                                 *)

\* syntax.rs DEFAULT
DEFAULT ==
    [filetype |-> "no ft",
     number |-> FALSE,
     single_line_comment |-> <<>>,
     multi_line_comment |-> <<>>,
     string_literal |-> <<>>,
     keyword1 |->
         <<>>,
     keyword2 |->
         <<>>]

\* syntax.rs HLDB[0]: // /* */ " ' and the keywords of C
HLDB_C ==
    [filetype |-> "c",
     number |-> TRUE,
     single_line_comment |-> <<<<47, 47>>>>,
     multi_line_comment |-> <<<<<<47, 42>>, <<42, 47>>>>>>,
     string_literal |-> <<<<<<34>>, <<34>>>>, <<<<39>>, <<39>>>>>>,
     keyword1 |->
         <<<<115, 119, 105, 116, 99, 104>>,
         <<105, 102>>,
         <<119, 104, 105, 108, 101>>,
         <<102, 111, 114>>,
         <<98, 114, 101, 97, 107>>,
         <<99, 111, 110, 116, 105, 110, 117, 101>>,
         <<114, 101, 116, 117, 114, 110>>,
         <<101, 108, 115, 101>>,
         <<115, 116, 114, 117, 99, 116>>,
         <<117, 110, 105, 111, 110>>,
         <<116, 121, 112, 101, 100, 101, 102>>,
         <<115, 116, 97, 116, 105, 99>>,
         <<101, 110, 117, 109>>,
         <<99, 108, 97, 115, 115>>,
         <<99, 97, 115, 101>>>>,
     keyword2 |->
         <<<<105, 110, 116>>,
         <<108, 111, 110, 103>>,
         <<100, 111, 117, 98, 108, 101>>,
         <<102, 108, 111, 97, 116>>,
         <<99, 104, 97, 114>>,
         <<117, 110, 115, 105, 103, 110, 101, 100>>,
         <<115, 105, 103, 110, 101, 100>>,
         <<118, 111, 105, 100>>>>]

\* syntax.rs HLDB[1]
HLDB_Rust ==
    [filetype |-> "rust",
     number |-> TRUE,
     single_line_comment |-> <<<<47, 47>>>>,
     multi_line_comment |-> <<<<<<47, 42>>, <<42, 47>>>>>>,
     string_literal |-> <<<<<<34>>, <<34>>>>, <<<<39>>, <<39>>>>>>,
     keyword1 |->
         <<<<97, 115>>,
         <<98, 114, 101, 97, 107>>,
         <<99, 111, 110, 115, 116>>,
         <<99, 111, 110, 116, 105, 110, 117, 101>>,
         <<99, 114, 97, 116, 101>>,
         <<100, 121, 110>>,
         <<101, 108, 115, 101>>,
         <<101, 110, 117, 109>>,
         <<101, 120, 116, 101, 114, 110>>,
         <<102, 97, 108, 115, 101>>,
         <<102, 110>>,
         <<102, 111, 114>>,
         <<105, 102>>,
         <<105, 109, 112, 108>>,
         <<105, 110>>,
         <<108, 101, 116>>,
         <<108, 111, 111, 112>>,
         <<109, 97, 116, 99, 104>>,
         <<109, 111, 100>>,
         <<109, 111, 118, 101>>,
         <<109, 117, 116>>,
         <<112, 117, 98>>,
         <<114, 101, 102>>,
         <<114, 101, 116, 117, 114, 110>>,
         <<115, 101, 108, 102>>,
         <<83, 101, 108, 102>>,
         <<115, 116, 97, 116, 105, 99>>,
         <<115, 116, 114, 117, 99, 116>>,
         <<115, 117, 112, 101, 114>>,
         <<116, 114, 97, 105, 116>>,
         <<116, 114, 117, 101>>,
         <<116, 121, 112, 101>>,
         <<117, 110, 115, 97, 102, 101>>,
         <<117, 115, 101>>,
         <<119, 104, 101, 114, 101>>,
         <<119, 104, 105, 108, 101>>>>,
     keyword2 |->
         <<<<105, 56>>,
         <<105, 49, 54>>,
         <<105, 51, 50>>,
         <<105, 54, 52>>,
         <<105, 115, 105, 122, 101>>,
         <<117, 56>>,
         <<117, 49, 54>>,
         <<117, 51, 50>>,
         <<117, 54, 52>>,
         <<117, 115, 105, 122, 101>>,
         <<98, 111, 111, 108>>,
         <<99, 104, 97, 114>>,
         <<102, 51, 50>>,
         <<102, 54, 52>>>>]

HLDB == <<HLDB_C, HLDB_Rust>>

\* Highlight
Normal == "Normal"
SingleLineComment == "SingleLineComment"
MultiLineComment == "MultiLineComment"
Keyword1 == "Keyword1"
Keyword2 == "Keyword2"
String == "String"
Number == "Number"
Match == "Match"

\* Option<Open>
OpenNone == [kind |-> "None", end |-> <<>>]
OpenComment(mce) == [kind |-> "Comment", end |-> mce]
OpenString(sle) == [kind |-> "String", end |-> sle]

\* chars.starts_with(m), chars the text s from character i on
StartsWith(s, i, m) ==
    /\ i + Len(m) - 1 <= Len(s)
    /\ \A j \in 1 .. Len(m) : s[i + j - 1] = m[j]

\* the bytes of the characters i .. i + n - 1 of s
Bytes(s, i, n) == ByteIdx(s, i + n) - ByteIdx(s, i)

\* char::is_whitespace (White_Space)
IsWhitespace(ch) ==
    \/ ch >= 9 /\ ch <= 13
    \/ ch \in {32, 133, 160, 5760, 8232, 8233, 8239, 8287, 12288}
    \/ ch >= 8192 /\ ch <= 8202

\* is_separator: whitespace, NUL or one of ,.()+-/*=~%<>[];
is_separator(ch) ==
    \/ IsWhitespace(ch)
    \/ ch = 0
    \/ ch \in {44, 46, 40, 41, 43, 45, 47, 42, 61, 126, 37, 60, 62, 91, 93, 59}

IsDigit(ch) == ch >= 48 /\ ch <= 57

\* the first index from k on of an entry of the table whose opening marker
\* starts the text at i; Len + 1 when there is none
RECURSIVE FirstStart(_, _, _, _)
FirstStart(table, k, s, i) ==
    IF k > Len(table) THEN k
    ELSE IF StartsWith(s, i, table[k][1]) THEN k
    ELSE FirstStart(table, k + 1, s, i)

\* the result of a parse_* function: Some(n characters, open) or None
Parsed(n, open) == [some |-> TRUE, n |-> n, open |-> open]
NotParsed == [some |-> FALSE, n |-> 0, open |-> OpenNone]

\* Syntax::parse_single_line_comment
parse_single_line_comment(syntax, s, i) ==
    IF \E k \in 1 .. Len(syntax.single_line_comment) :
           StartsWith(s, i, syntax.single_line_comment[k])
    THEN Parsed(Len(s) - i + 1, OpenNone)
    ELSE NotParsed

\* Syntax::parse_multi_line_comment_start
parse_multi_line_comment_start(syntax, s, i) ==
    IF FirstStart(syntax.multi_line_comment, 1, s, i) <= Len(syntax.multi_line_comment)
    THEN Parsed(Len(syntax.multi_line_comment[FirstStart(syntax.multi_line_comment, 1, s, i)][1]),
                OpenComment(syntax.multi_line_comment[FirstStart(syntax.multi_line_comment, 1, s, i)][2]))
    ELSE NotParsed

\* chars.match_indices(m).next(): the first j >= i where m starts, 0 when none
RECURSIVE FirstMatch(_, _, _)
FirstMatch(s, j, m) ==
    IF j > Len(s) THEN 0
    ELSE IF StartsWith(s, j, m) THEN j
    ELSE FirstMatch(s, j + 1, m)

\* Faulty variant of parse_multi_line_comment_end: the comment ends before its
\* end marker
MultiLineCommentEndBeforeMarker(s, i, mce) ==
    IF FirstMatch(s, i, mce) # 0
    THEN Parsed(FirstMatch(s, i, mce) - i, OpenNone)
    ELSE Parsed(Len(s) - i + 1, OpenComment(mce))

\* Syntax::parse_multi_line_comment_end
parse_multi_line_comment_end(s, i, mce) ==
    IF FirstMatch(s, i, mce) # 0
    THEN Parsed(FirstMatch(s, i, mce) - i + Len(mce), OpenNone)
    ELSE Parsed(Len(s) - i + 1, OpenComment(mce))

\* Syntax::parse_string_literal_start
parse_string_literal_start(syntax, s, i) ==
    IF FirstStart(syntax.string_literal, 1, s, i) <= Len(syntax.string_literal)
    THEN Parsed(Len(syntax.string_literal[FirstStart(syntax.string_literal, 1, s, i)][1]),
                OpenString(syntax.string_literal[FirstStart(syntax.string_literal, 1, s, i)][2]))
    ELSE NotParsed

\* Faulty variant of StringEndLoop: a backslash escapes nothing
RECURSIVE StringEndLoopNoEscape(_, _, _, _, _)
StringEndLoopNoEscape(s, i, j, escaped, sle) ==
    IF j > Len(s) THEN Parsed(Len(s) - i + 1, OpenString(sle))
    ELSE IF s[j] = sle[1] /\ StartsWith(s, j, sle) THEN Parsed(j + Len(sle) - i, OpenNone)
    ELSE StringEndLoopNoEscape(s, i, j + 1, escaped, sle)

\* the loop of parse_string_literal_end over the matches of the head of sle
\* and of the backslash (92), from character j on
RECURSIVE StringEndLoop(_, _, _, _, _)
StringEndLoop(s, i, j, escaped, sle) ==
    IF j > Len(s) THEN Parsed(Len(s) - i + 1, OpenString(sle))
    ELSE IF s[j] \notin {sle[1], 92} THEN StringEndLoop(s, i, j + 1, escaped, sle)
    ELSE IF escaped = j THEN StringEndLoop(s, i, j + 1, escaped, sle)
    ELSE IF s[j] = 92 THEN StringEndLoop(s, i, j + 1, j + 1, sle)
    ELSE IF StartsWith(s, j, sle) THEN Parsed(j + Len(sle) - i, OpenNone)
    ELSE StringEndLoop(s, i, j + 1, escaped, sle)

\* Syntax::parse_string_literal_end
parse_string_literal_end(s, i, sle) == StringEndLoop(s, i, i, 0, sle)

\* chars.trim_start_matches(is_digit): the first j >= i that is no digit
RECURSIVE TrimDigits(_, _)
TrimDigits(s, j) ==
    IF j <= Len(s) /\ IsDigit(s[j]) THEN TrimDigits(s, j + 1) ELSE j

\* trim_start_matches(is_digit or '.')
RECURSIVE TrimDigitsAndDots(_, _)
TrimDigitsAndDots(s, j) ==
    IF j <= Len(s) /\ (IsDigit(s[j]) \/ s[j] = 46) THEN TrimDigitsAndDots(s, j + 1) ELSE j

\* Syntax::parse_number
parse_number(syntax, s, i, prev_sep) ==
    IF ~prev_sep \/ ~syntax.number THEN NotParsed
    ELSE IF TrimDigits(s, i) # i THEN Parsed(TrimDigitsAndDots(s, TrimDigits(s, i)) - i, OpenNone)
    ELSE NotParsed

\* Faulty variant of KeywordLoop: the character after the keyword is not looked at
RECURSIVE KeywordLoopAnyFollower(_, _, _, _)
KeywordLoopAnyFollower(kws, k, s, i) ==
    IF k > Len(kws) THEN NotParsed
    ELSE IF StartsWith(s, i, kws[k]) THEN Parsed(Len(kws[k]), OpenNone)
    ELSE KeywordLoopAnyFollower(kws, k + 1, s, i)

\* the loop of parse_keyword_common over kws, from entry k on
RECURSIVE KeywordLoop(_, _, _, _)
KeywordLoop(kws, k, s, i) ==
    IF k > Len(kws) THEN NotParsed
    ELSE IF ~StartsWith(s, i, kws[k]) THEN KeywordLoop(kws, k + 1, s, i)
    ELSE IF i + Len(kws[k]) > Len(s) THEN Parsed(Len(kws[k]), OpenNone)
    ELSE IF is_separator(s[i + Len(kws[k])]) THEN Parsed(Len(kws[k]), OpenNone)
    ELSE KeywordLoop(kws, k + 1, s, i)

\* Syntax::parse_keyword_common
parse_keyword_common(s, i, prev_sep, kws) ==
    IF ~prev_sep THEN NotParsed ELSE KeywordLoop(kws, 1, s, i)

\* what Syntax::parse returns and leaves in prev_sep and open
Token(hl, p, prev_sep, open) == [hl |-> hl, n |-> p.n, prev_sep |-> prev_sep, open |-> open]

\* Syntax::parse with open = None, from the string literal on
ParseLiteral(syntax, s, i, prev_sep) ==
    IF parse_string_literal_start(syntax, s, i).some
    THEN Token(String, parse_string_literal_start(syntax, s, i), TRUE,
               parse_string_literal_start(syntax, s, i).open)
    ELSE IF parse_number(syntax, s, i, prev_sep).some
    THEN Token(Number, parse_number(syntax, s, i, prev_sep), FALSE, OpenNone)
    ELSE IF parse_keyword_common(s, i, prev_sep, syntax.keyword1).some
    THEN Token(Keyword1, parse_keyword_common(s, i, prev_sep, syntax.keyword1), FALSE, OpenNone)
    ELSE IF parse_keyword_common(s, i, prev_sep, syntax.keyword2).some
    THEN Token(Keyword2, parse_keyword_common(s, i, prev_sep, syntax.keyword2), FALSE, OpenNone)
    ELSE Token(Normal, Parsed(1, OpenNone), is_separator(s[i]), OpenNone)

\* Faulty variant of Parse: the single-line comment is tried after the
\* multi-line comment and the literals, as a plain character would be
ParseCommentLast(syntax, s, i, prev_sep, open) ==
    IF open.kind = "String"
    THEN Token(String, parse_string_literal_end(s, i, open.end), TRUE,
               parse_string_literal_end(s, i, open.end).open)
    ELSE IF open.kind = "Comment"
    THEN Token(MultiLineComment, parse_multi_line_comment_end(s, i, open.end), TRUE,
               parse_multi_line_comment_end(s, i, open.end).open)
    ELSE IF parse_multi_line_comment_start(syntax, s, i).some
    THEN Token(MultiLineComment, parse_multi_line_comment_start(syntax, s, i), TRUE,
               parse_multi_line_comment_start(syntax, s, i).open)
    ELSE ParseLiteral(syntax, s, i, prev_sep)

\* Syntax::parse
Parse(syntax, s, i, prev_sep, open) ==
    IF open.kind = "String"
    THEN Token(String, parse_string_literal_end(s, i, open.end), TRUE,
               parse_string_literal_end(s, i, open.end).open)
    ELSE IF open.kind = "Comment"
    THEN Token(MultiLineComment, parse_multi_line_comment_end(s, i, open.end), TRUE,
               parse_multi_line_comment_end(s, i, open.end).open)
    ELSE IF parse_single_line_comment(syntax, s, i).some
    THEN Token(SingleLineComment, parse_single_line_comment(syntax, s, i), TRUE, OpenNone)
    ELSE IF parse_multi_line_comment_start(syntax, s, i).some
    THEN Token(MultiLineComment, parse_multi_line_comment_start(syntax, s, i), TRUE,
               parse_multi_line_comment_start(syntax, s, i).open)
    ELSE ParseLiteral(syntax, s, i, prev_sep)

\* iter::repeat(highlight).take(len)
Repeat(hl, len) == [j \in 1 .. len |-> hl]

\* Faulty variant of Extend: one tag for each character
ExtendPerChar(highlight, s, i, t) == highlight \o Repeat(t.hl, t.n)

\* self.highlight.extend(iter::repeat(highlight).take(len)), len in bytes
Extend(highlight, s, i, t) == highlight \o Repeat(t.hl, Bytes(s, i, t.n))

\* the while loop of SyntaxState::update, from character i on
RECURSIVE LexLoop(_, _, _, _, _, _)
LexStep(syntax, s, i, t, highlight) ==
    LexLoop(syntax, s, i + t.n, t.prev_sep, t.open, Extend(highlight, s, i, t))
LexLoop(syntax, s, i, prev_sep, open, highlight) ==
    IF i > Len(s) THEN [highlight |-> highlight, open |-> open]
    ELSE LexStep(syntax, s, i, Parse(syntax, s, i, prev_sep, open), highlight)

\* SyntaxState::new; overlay is the <<start, end, tag>> that set_overlay put
\* over the tags (text_buffer.rs 371-372), <<>> when there is none
NewSyntaxState == [updated |-> FALSE, open |-> OpenNone, highlight |-> <<>>, overlay |-> <<>>]

\* SyntaxState::invalidate
Invalidate(state) == [state EXCEPT !.updated = FALSE]

\* SyntaxState::update: the state after the call, and whether next is invalidated
Updated(state, lexed) ==
    [state |-> [state EXCEPT !.updated = TRUE, !.open = lexed.open, !.highlight = lexed.highlight],
     changed |-> state.open # lexed.open]
Update(state, s, syntax, prev_open) ==
    IF state.updated THEN [state |-> state, changed |-> FALSE]
    ELSE Updated(state, LexLoop(syntax, s, 1, TRUE, prev_open, <<>>))

----------------------------------------------------------------------------
(* Row editing (row.rs) and the TextBuffer (text_buffer.rs).  Row indices   *)
(* and cursor positions count from 0 as in the code; rows[y + 1] is row y.  *)

\* s.trim_end_matches(&['\n', '\r'][..])
RECURSIVE TrimEnd(_)
TrimEnd(s) ==
    IF s # <<>> /\ s[Len(s)] \in {10, 13} THEN TrimEnd(SubSeq(s, 1, Len(s) - 1)) ELSE s

\* Row::new
RowNew(s) == [chars |-> TrimEnd(s), syntax_state |-> NewSyntaxState]

\* Row::invalidate_syntax
invalidate_syntax(row) == [row EXCEPT !.syntax_state = Invalidate(@)]

\* Row::insert_char (at is a character boundary)
RowInsertChar(row, at, ch) ==
    invalidate_syntax([row EXCEPT !.chars =
        SubSeq(@, 1, CharsBefore(@, at)) \o <<ch>> \o SubSeq(@, CharsBefore(@, at) + 1, Len(@))])

\* Row::delete_char (at is the offset of a character)
RowDeleteChar(row, at) ==
    invalidate_syntax([row EXCEPT !.chars =
        SubSeq(@, 1, CharsBefore(@, at)) \o SubSeq(@, CharsBefore(@, at) + 2, Len(@))])

\* Row::append_str
RowAppendStr(row, s) == invalidate_syntax([row EXCEPT !.chars = @ \o s])

\* Faulty variant of Row::split: the row that stays is never invalidated
RowSplitKeepsState(row, at) ==
    [row |-> [row EXCEPT !.chars = SubSeq(@, 1, CharsBefore(@, at))],
     out |-> SubSeq(row.chars, CharsBefore(row.chars, at) + 1, Len(row.chars))]

\* Row::split: the row that stays, and the text split off
RowSplit(row, at) ==
    [row |-> IF CharsBefore(row.chars, at) < Len(row.chars)
             THEN invalidate_syntax([row EXCEPT !.chars = SubSeq(@, 1, CharsBefore(@, at))])
             ELSE row,
     out |-> SubSeq(row.chars, CharsBefore(row.chars, at) + 1, Len(row.chars))]

\* Row::update_highlight: the row after the call and whether next_row is invalidated
RowUpdate(row, syntax, prev_open) ==
    Update(row.syntax_state, row.chars, syntax, prev_open)

\* Syntax::select, by the filetype it selects
SyntaxOf(filetype) ==
    IF filetype = "c" THEN HLDB_C ELSE IF filetype = "rust" THEN HLDB_Rust ELSE DEFAULT

Point(x, y) == [x |-> x, y |-> y]
Size(cols, rows) == [cols |-> cols, rows |-> rows]

\* TextBuffer::from_file over the lines of a file, with set_filename's syntax
FromFile(lines, filetype, render_size) ==
    [rows |-> [i \in 1 .. Len(lines) |-> RowNew(lines[i])],
     c |-> Point(0, 0),
     origin |-> Point(0, 0),
     size |-> render_size,
     syntax |-> filetype,
     is_dirty |-> FALSE,
     panic |-> FALSE]

\* a panic of the call: an index out of range, a slice off a boundary
Panicked(b) == [b EXCEPT !.panic = TRUE]

HasRow(b, y) == y < Len(b.rows)
RowLen(b, y) == StrLen(b.rows[y + 1].chars)

\* self.rows.get(self.c.y).map(|row| row.get_rx_from_cx(self.c.x)).unwrap_or(0)
CursorRx(b) ==
    IF HasRow(b, b.c.y) THEN GetRxFromCx(b.rows[b.c.y + 1].chars, b.c.x).res ELSE 0

\* Faulty variant of AtColumn: the vertical move keeps the byte offset
AtColumnKeepsOffset(b, y, rx) == [b EXCEPT !.c.y = y]

\* the cursor after the vertical move to row y, at the column rx
AtColumn(b, y, rx) ==
    [b EXCEPT !.c = Point(IF HasRow(b, y) THEN GetCxFromRx(b.rows[y + 1].chars, rx).res ELSE 0, y)]

\* c.y after YScroll::Down(dy)
DownTo(b, dy) ==
    IF b.c.y + dy >= Max(Len(b.rows) - 1, 0) THEN Max(Len(b.rows) - 1, 0) ELSE b.c.y + dy

\* the character before / at the cursor in the cursor's row; 0 chars when none
CharBefore(b) ==
    IF HasRow(b, b.c.y) /\ b.c.x > 0
    THEN <<b.rows[b.c.y + 1].chars[CharsBefore(b.rows[b.c.y + 1].chars, b.c.x)]>>
    ELSE <<>>
CharAt(b) ==
    IF HasRow(b, b.c.y) /\ b.c.x < RowLen(b, b.c.y)
    THEN <<b.rows[b.c.y + 1].chars[CharsBefore(b.rows[b.c.y + 1].chars, b.c.x) + 1]>>
    ELSE <<>>

\* TextBuffer::move_cursor; the page moves are keyed after a refresh_screen,
\* with the cursor in the viewport
move_cursor(b, mv) ==
    IF mv = "Left"
    THEN IF CharBefore(b) # <<>> THEN [b EXCEPT !.c.x = @ - LenUtf8(CharBefore(b)[1])]
         ELSE IF b.c.y > 0 THEN [b EXCEPT !.c = Point(RowLen(b, b.c.y - 1), b.c.y - 1)]
         ELSE b
    ELSE IF mv = "Right"
    THEN IF ~HasRow(b, b.c.y) THEN b
         ELSE IF CharAt(b) # <<>> THEN [b EXCEPT !.c.x = @ + LenUtf8(CharAt(b)[1])]
         ELSE [b EXCEPT !.c = Point(0, b.c.y + 1)]
    ELSE IF mv = "Home" THEN [b EXCEPT !.c.x = 0]
    ELSE IF mv = "End"
    THEN IF HasRow(b, b.c.y) THEN [b EXCEPT !.c.x = RowLen(b, b.c.y)] ELSE b
    ELSE IF mv = "Up" THEN AtColumn(b, Max(b.c.y - 1, 0), CursorRx(b))
    ELSE IF mv = "Down" THEN AtColumn(b, DownTo(b, 1), CursorRx(b))
    ELSE IF mv = "PageUp"
    THEN AtColumn(b, Max(b.c.y - ((b.c.y - b.origin.y) + b.size.rows), 0), CursorRx(b))
    ELSE IF mv = "PageDown"
    THEN AtColumn(b, DownTo(b, (b.origin.y + (b.size.rows - 1) - b.c.y) + b.size.rows),
                  CursorRx(b))
    ELSE IF mv = "BufferHome" THEN [b EXCEPT !.c = Point(0, 0)]
    ELSE IF mv = "BufferEnd"
    THEN IF b.rows # <<>> THEN [b EXCEPT !.c = Point(RowLen(b, Len(b.rows) - 1), Len(b.rows) - 1)]
         ELSE b
    ELSE b

\* Vec::insert(at, row) and Vec::remove(at)
VecInsert(rows, at, row) == SubSeq(rows, 1, at) \o <<row>> \o SubSeq(rows, at + 1, Len(rows))
VecRemove(rows, at) == SubSeq(rows, 1, at) \o SubSeq(rows, at + 2, Len(rows))

\* TextBuffer::insert_row, append_row, delete_row
insert_row(b, at, s) == [b EXCEPT !.rows = VecInsert(@, at, RowNew(s)), !.is_dirty = TRUE]
append_row(b, s) == insert_row(b, Len(b.rows), s)
delete_row(b, at) == [b EXCEPT !.rows = VecRemove(@, at), !.is_dirty = TRUE]

\* TextBuffer::insert_char
WithCursorRow(b) == IF b.c.y = Len(b.rows) THEN append_row(b, <<>>) ELSE b
InsertIntoRow(b, ch) == [b EXCEPT !.rows[b.c.y + 1] = RowInsertChar(@, b.c.x, ch)]
insert_char(b, ch) ==
    [move_cursor(InsertIntoRow(WithCursorRow(b), ch), "Right") EXCEPT !.is_dirty = TRUE]

\* the rows of insert_newline: the cursor's row split, the rest inserted after it
SplitRows(b) ==
    IF HasRow(b, b.c.y)
    THEN insert_row([b EXCEPT !.rows[b.c.y + 1] = RowSplit(@, b.c.x).row],
                    b.c.y + 1, RowSplit(b.rows[b.c.y + 1], b.c.x).out)
    ELSE append_row(b, <<>>)

\* TextBuffer::insert_newline
insert_newline(b) == [move_cursor(SplitRows(b), "Right") EXCEPT !.is_dirty = TRUE]

\* Faulty variant of delete_char: the merge of two rows neither marks the
\* buffer dirty nor invalidates the row
DeleteCharQuietMerge(b) ==
    IF b.c.y + 1 > Len(b.rows) THEN Panicked(b)
    ELSE IF b.c.x < RowLen(b, b.c.y)
    THEN [b EXCEPT !.rows[b.c.y + 1] = RowDeleteChar(@, b.c.x), !.is_dirty = TRUE]
    ELSE IF HasRow(b, b.c.y + 1)
    THEN [b EXCEPT !.rows = VecRemove([@ EXCEPT ![b.c.y + 1].chars = @ \o b.rows[b.c.y + 2].chars],
                                      b.c.y + 1)]
    ELSE b

\* TextBuffer::delete_char; split_at_mut(c.y + 1) panics past the last row
delete_char(b) ==
    IF b.c.y + 1 > Len(b.rows) THEN Panicked(b)
    ELSE IF b.c.x < RowLen(b, b.c.y)
    THEN [b EXCEPT !.rows[b.c.y + 1] = RowDeleteChar(@, b.c.x), !.is_dirty = TRUE]
    ELSE IF HasRow(b, b.c.y + 1)
    THEN delete_row([b EXCEPT !.rows[b.c.y + 1] = RowAppendStr(@, b.rows[b.c.y + 2].chars)],
                    b.c.y + 1)
    ELSE b

\* TextBuffer::delete_back_char
delete_back_char(b) == delete_char(move_cursor(b, "Left"))

\* TextBuffer::save: file::save writes the rows or fails; ok is its outcome
save(b, ok) == IF ok THEN [b EXCEPT !.is_dirty = FALSE] ELSE b

\* TextBuffer::scroll and TextBufferView::scroll: the origin after the call
ScrolledY(b) ==
    IF Min(b.origin.y, b.c.y) + (b.size.rows - 1) < b.c.y
    THEN b.c.y - (b.size.rows - 1)
    ELSE Min(b.origin.y, b.c.y)
ScrolledX(b) ==
    IF Min(b.origin.x, CursorRx(b)) + (b.size.cols - 1) < CursorRx(b)
    THEN CursorRx(b) - (b.size.cols - 1)
    ELSE Min(b.origin.x, CursorRx(b))

\* Faulty variant of scroll: the origin follows the cursor
ScrollToCursor(b) == [b EXCEPT !.origin = Point(CursorRx(b), b.c.y)]

scroll(b) == [b EXCEPT !.origin = Point(ScrolledX(b), ScrolledY(b))]

\* the Point that scroll returns
ScrollPoint(b) == Point(CursorRx(b) - scroll(b).origin.x, b.c.y - scroll(b).origin.y)

\* prev.and_then(|state| state.open) for row cy
PrevOpen(rows, cy) == IF cy > 0 THEN rows[cy].syntax_state.open ELSE OpenNone

\* Faulty variant of UpdateRow: the next row is invalidated whenever the row is lexed
UpdateRowAlwaysInvalidates(rows, syntax, cy) ==
    [i \in 1 .. Len(rows) |->
        IF i = cy + 1
        THEN [rows[i] EXCEPT !.syntax_state = RowUpdate(rows[i], syntax, PrevOpen(rows, cy)).state]
        ELSE IF i = cy + 2 /\ ~rows[cy + 1].syntax_state.updated
        THEN invalidate_syntax(rows[i])
        ELSE rows[i]]

\* row.update_highlight(syntax, prev, next) on [prev, row, next] = rows.get3_mut(cy)
UpdateRow(rows, syntax, cy) ==
    [i \in 1 .. Len(rows) |->
        IF i = cy + 1
        THEN [rows[i] EXCEPT !.syntax_state = RowUpdate(rows[i], syntax, PrevOpen(rows, cy)).state]
        ELSE IF i = cy + 2 /\ RowUpdate(rows[cy + 1], syntax, PrevOpen(rows, cy)).changed
        THEN invalidate_syntax(rows[i])
        ELSE rows[i]]

\* the loop of TextBuffer::update_highlight for cy in from .. to - 1;
\* get3_mut(cy) splits the rows at cy and panics when cy is past their end
RECURSIVE UpdateLoop(_, _, _)
UpdateLoop(b, cy, to) ==
    IF cy >= to THEN b
    ELSE IF cy > Len(b.rows) THEN Panicked(b)
    ELSE IF cy = Len(b.rows) THEN UpdateLoop(b, cy + 1, to)
    ELSE UpdateLoop([b EXCEPT !.rows = UpdateRow(@, SyntaxOf(b.syntax), cy)], cy + 1, to)

\* TextBuffer::update_highlight
update_highlight(b) == UpdateLoop(b, 0, b.origin.y + b.size.rows)

----------------------------------------------------------------------------
(* The editing session: a buffer loaded from a file, then cursor moves,     *)
(* edits and update passes, as process_keypress and refresh_screen call     *)
(* them.                                                                    *)

MaxEdits == 2

\* CursorMove, without the page moves
Moves == {"Left", "Right", "Up", "Down", "Home", "End", "BufferHome", "BufferEnd"}

\* the characters typed into the buffer: / and *
TypedChars == {47, 42}

Live == buffer # NoBuffer /\ ~buffer.panic
\* the keys of an edit are read outside the search prompt
CanEdit == Live /\ find = NoFind /\ hist.edits < hist.budget

\* hist after a call that is not remembered / an edit that is not remembered
Forget(h) == [h EXCEPT !.calls = <<>>]
Edited(h) == [h EXCEPT !.edits = @ + 1, !.calls = <<>>]
CallOf(op, before) == [op |-> op, before |-> before]

\* Editor::move_cursor
MoveCursorCall ==
    /\ Live /\ find = NoFind
    /\ \E mv \in Moves : buffer' = move_cursor(buffer, mv)
    /\ hist' = Forget(hist)
    /\ UNCHANGED <<find, render, rowVars, decVars, editor, libVars>>

\* Editor::insert_char
InsertCharCall ==
    /\ CanEdit
    /\ \E ch \in TypedChars : buffer' = insert_char(buffer, ch)
    /\ hist' = [Edited(hist) EXCEPT !.calls = <<CallOf("insert_char", buffer)>>]
    /\ UNCHANGED <<find, render, rowVars, decVars, editor, libVars>>

\* Editor::insert_newline
InsertNewlineCall ==
    /\ CanEdit
    /\ buffer' = insert_newline(buffer)
    /\ hist' = [Edited(hist) EXCEPT !.calls = <<CallOf("insert_newline", buffer)>>]
    /\ UNCHANGED <<find, render, rowVars, decVars, editor, libVars>>

\* Editor::delete_char
DeleteCharCall ==
    /\ CanEdit
    /\ buffer' = delete_char(buffer)
    /\ hist' = [Edited(hist) EXCEPT !.calls = <<CallOf("delete_char", buffer)>>]
    /\ UNCHANGED <<find, render, rowVars, decVars, editor, libVars>>

\* Editor::delete_back_char
DeleteBackCharCall ==
    /\ CanEdit
    /\ buffer' = delete_back_char(buffer)
    /\ hist' = [Edited(hist) EXCEPT !.calls =
                    IF hist.calls # <<>> /\ hist.calls[Len(hist.calls)].op = "insert_newline"
                    THEN Append(hist.calls, CallOf("delete_back_char", buffer))
                    ELSE <<CallOf("delete_back_char", buffer)>>]
    /\ UNCHANGED <<find, render, rowVars, decVars, editor, libVars>>

\* Editor::update_highlight, once after the calls since the last one
UpdateHighlightCall ==
    /\ Live
    /\ IF hist.calls = <<>> THEN TRUE ELSE hist.calls[Len(hist.calls)].op # "update_highlight"
    /\ buffer' = update_highlight(buffer)
    /\ hist' = [hist EXCEPT !.calls = <<CallOf("update_highlight", buffer)>>]
    /\ UNCHANGED <<find, render, rowVars, decVars, editor, libVars>>

\* Editor::scroll
ScrollCall ==
    /\ Live
    /\ buffer' = scroll(buffer)
    /\ hist' = [hist EXCEPT !.calls = <<CallOf("scroll", buffer)>>]
    /\ UNCHANGED <<find, render, rowVars, decVars, editor, libVars>>

\* Editor::save on a buffer that has a filename
SaveCall ==
    /\ Live
    /\ \E ok \in BOOLEAN :
           /\ buffer' = save(buffer, ok)
           /\ hist' = [hist EXCEPT !.calls = <<[op |-> "save", ok |-> ok]>>]
    /\ UNCHANGED <<find, render, rowVars, decVars, editor, libVars>>

\* the files of the highlighting sessions, by their lines:
\*   /*/ é      "\ " é
SyntaxFiles ==
    {<<<<47, 42, 47>>, <<233>>>>,
     <<<<34, 92>>, <<34>>, <<233>>>>}

\* the render sizes of the sessions: the rows of the file, and one more
SyntaxSizes(lines) == {Size(8, Len(lines)), Size(8, Len(lines) + 1)}

\* Editor::open(filename) on a .c file; the session makes up to budget edits
InitSyntax ==
    /\ \E lines \in SyntaxFiles : \E z \in SyntaxSizes(lines) :
           buffer = FromFile(lines, "c", z)
    /\ find = NoFind
    /\ hist = [edits |-> 0, budget |-> MaxEdits, calls |-> <<>>]
    /\ DecoderIdle /\ RowIdle /\ RenderIdle /\ EditorIdle

NextSyntax ==
    \/ MoveCursorCall
    \/ InsertCharCall
    \/ InsertNewlineCall
    \/ DeleteCharCall
    \/ DeleteBackCharCall
    \/ UpdateHighlightCall

SpecSyntax == InitSyntax /\ [][NextSyntax]_vars

----------------------------------------------------------------------------
(* Claims about highlighting across rows *)

\* the last call was an update pass that visited every row
FullPass ==
    /\ Live
    /\ hist.calls # <<>> /\ hist.calls[1].op = "update_highlight"
    /\ buffer.origin.y + buffer.size.rows >= Len(buffer.rows)

\* the buffer lexed from row 0 with all cached state discarded
Relexed == UpdateLoop(FromFile([i \in 1 .. Len(buffer.rows) |-> buffer.rows[i].chars],
                               buffer.syntax, buffer.size),
                      0, Len(buffer.rows)).rows

\* the position after the first */ of the text from character i on (Len + 1
\* when there is none), and whether there is one
CommentEnd(s) == IF FirstMatch(s, 1, <<42, 47>>) = 0 THEN Len(s) + 1 ELSE FirstMatch(s, 1, <<42, 47>>) + 2
Closes(s) == FirstMatch(s, 1, <<42, 47>>) # 0

\* no / and no quote in the characters of s from i on
NoMarkers(s, i) == \A j \in i .. Len(s) : s[j] \notin {47, 34, 39}

IsComment(hl) == hl \in {MultiLineComment, SingleLineComment}

\* rows i + 1 .. j - 1 (from 0) have no */
OpenThrough(rows, i, j) == \A m \in i + 1 .. j - 1 : ~Closes(rows[m + 1].chars)

\* C14: a pass in which row i, edited since it was lexed, comes to end in an
\* unterminated /* while the row after it had been lexed as plain text leaves
\* that row and the rows after it tagged MultiLineComment up to and including
\* the first */, and leaves the rest of the row with the */ and the rows after
\* it without comment tags as long as they hold no marker.
C14_CommentCarriesToNextRows ==
    FullPass =>
    \A i \in 0 .. Len(buffer.rows) - 2 :
        LET before == hist.calls[1].before.rows
            rows == buffer.rows
        IN  (/\ Len(before) = Len(rows)
             /\ ~before[i + 1].syntax_state.updated
             /\ before[i + 1].syntax_state.open = OpenNone
             /\ rows[i + 1].syntax_state.open = OpenComment(<<42, 47>>)
             /\ before[i + 2].syntax_state.updated
             /\ before[i + 2].syntax_state.open = OpenNone
             /\ \A t \in 1 .. Len(before[i + 2].syntax_state.highlight) :
                   ~IsComment(before[i + 2].syntax_state.highlight[t]))
            => \A j \in i + 1 .. Len(rows) - 1 :
                  /\ OpenThrough(rows, i, j)
                     => \A t \in 1 .. ByteIdx(rows[j + 1].chars, CommentEnd(rows[j + 1].chars)) :
                           rows[j + 1].syntax_state.highlight[t] = MultiLineComment
                  /\ (\E m \in i + 1 .. j :
                         /\ OpenThrough(rows, i, m) /\ Closes(rows[m + 1].chars)
                         /\ NoMarkers(rows[m + 1].chars, CommentEnd(rows[m + 1].chars))
                         /\ \A n \in m + 1 .. j : NoMarkers(rows[n + 1].chars, 1))
                     => \A t \in 1 .. Len(rows[j + 1].syntax_state.highlight) :
                           (\/ j > (CHOOSE m \in i + 1 .. j :
                                       OpenThrough(rows, i, m) /\ Closes(rows[m + 1].chars))
                            \/ t > ByteIdx(rows[j + 1].chars, CommentEnd(rows[j + 1].chars)))
                           => ~IsComment(rows[j + 1].syntax_state.highlight[t])

\* C15: after a pass that visited every row, every row's tags and open state
\* are those of the buffer lexed from row 0 with nothing cached.
C15_PassEqualsFullLex ==
    FullPass =>
    \A i \in 1 .. Len(buffer.rows) :
        /\ buffer.rows[i].syntax_state.updated
        /\ buffer.rows[i].syntax_state.highlight = Relexed[i].syntax_state.highlight
        /\ buffer.rows[i].syntax_state.open = Relexed[i].syntax_state.open

----------------------------------------------------------------------------
(* One row under the editing calls of Row and Row::update_highlight, the    *)
(* row before it ending in any open state                                   *)

\* the characters put into the row: / * " and U+00E9 (two bytes)
LexChars == {47, 42, 34, 233}

\* the open state the previous row hands to update
PrevOpens == {OpenNone, OpenComment(<<42, 47>>), OpenString(<<34>>)}

\* the character boundaries of a text
Boundaries(chars) == {ByteIdx(chars, k) : k \in 1 .. Len(chars) + 1}

TheRow == buffer.rows[1]

\* the call of a Row method at the offset at, and whether the row was updated
RowCall(op, at) == CallOf(op, [at |-> at, len |-> StrLen(TheRow.chars),
                               updated |-> TheRow.syntax_state.updated])

\* Row::insert_char
RowInsertCharCall ==
    /\ Live /\ Len(TheRow.chars) < MaxRowLen
    /\ \E at \in Boundaries(TheRow.chars), ch \in LexChars :
           /\ buffer' = [buffer EXCEPT !.rows[1] = RowInsertChar(@, at, ch)]
           /\ hist' = [hist EXCEPT !.calls = <<RowCall("Row::insert_char", at)>>]
    /\ UNCHANGED <<find, render, rowVars, decVars, editor, libVars>>

\* Row::delete_char
RowDeleteCharCall ==
    /\ Live
    /\ \E k \in 1 .. Len(TheRow.chars) :
           /\ buffer' = [buffer EXCEPT !.rows[1] = RowDeleteChar(@, ByteIdx(TheRow.chars, k))]
           /\ hist' = [hist EXCEPT !.calls = <<RowCall("Row::delete_char", ByteIdx(TheRow.chars, k))>>]
    /\ UNCHANGED <<find, render, rowVars, decVars, editor, libVars>>

\* Row::append_str
RowAppendStrCall ==
    /\ Live
    /\ \E s \in SeqsUpTo(LexChars, 1) :
           /\ Len(TheRow.chars) + Len(s) <= MaxRowLen
           /\ buffer' = [buffer EXCEPT !.rows[1] = RowAppendStr(@, s)]
           /\ hist' = [hist EXCEPT !.calls = <<RowCall("Row::append_str", StrLen(TheRow.chars))>>]
    /\ UNCHANGED <<find, render, rowVars, decVars, editor, libVars>>

\* Row::split, the row that stays
RowSplitCall ==
    /\ Live
    /\ \E at \in Boundaries(TheRow.chars) :
           /\ buffer' = [buffer EXCEPT !.rows[1] = RowSplit(@, at).row]
           /\ hist' = [hist EXCEPT !.calls = <<RowCall("Row::split", at)>>]
    /\ UNCHANGED <<find, render, rowVars, decVars, editor, libVars>>

\* Row::update_highlight
RowUpdateHighlightCall ==
    /\ Live
    /\ \E prev_open \in PrevOpens :
           buffer' = [buffer EXCEPT !.rows[1].syntax_state =
                         RowUpdate(TheRow, SyntaxOf(buffer.syntax), prev_open).state]
    /\ hist' = Forget(hist)
    /\ UNCHANGED <<find, render, rowVars, decVars, editor, libVars>>

\* Row::new of the empty line and of the line with U+00E9 before /*
InitRowSyntax ==
    /\ \E line \in {<<>>, <<233, 47, 42>>} : buffer = FromFile(<<line>>, "c", Size(8, 1))
    /\ find = NoFind /\ hist = NoHist
    /\ DecoderIdle /\ RowIdle /\ RenderIdle /\ EditorIdle

NextRowSyntax ==
    \/ RowInsertCharCall
    \/ RowDeleteCharCall
    \/ RowAppendStrCall
    \/ RowSplitCall
    \/ RowUpdateHighlightCall

SpecRowSyntax == InitRowSyntax /\ [][NextRowSyntax]_vars

\* C12: a row whose SyntaxState is marked updated has one highlight tag for
\* each byte of its text, the bytes of one character carrying the same tag.
C12_OneTagPerByte ==
    Live =>
    \A y \in 1 .. Len(buffer.rows) :
        buffer.rows[y].syntax_state.updated =>
            /\ Len(buffer.rows[y].syntax_state.highlight) = StrLen(buffer.rows[y].chars)
            /\ \A k \in 1 .. Len(buffer.rows[y].chars) :
                   \A t \in ByteIdx(buffer.rows[y].chars, k) + 1 .. ByteIdx(buffer.rows[y].chars, k + 1) :
                       buffer.rows[y].syntax_state.highlight[t] =
                           buffer.rows[y].syntax_state.highlight[ByteIdx(buffer.rows[y].chars, k) + 1]

\* an edited row with a two-byte character, lexed: three tags for / and U+00E9
C12_Witness ==
    /\ Live
    /\ TheRow.chars = <<47, 233>>
    /\ TheRow.syntax_state.updated
    /\ Len(TheRow.syntax_state.highlight) = 3

\* the last call was one of the editing calls of Row
RowEdited == Live /\ hist.calls # <<>>

\* the last call split nothing off the row: Row::split at the row's length
SplitAtEnd ==
    /\ hist.calls[1].op = "Row::split"
    /\ hist.calls[1].before.at = hist.calls[1].before.len

\* C22: Row::insert_char, Row::delete_char, Row::append_str and Row::split,
\* called at any character boundary from 0 to the length of the row, leave
\* the SyntaxState of the row marked not-updated.
C22_RowEditInvalidates ==
    RowEdited => ~TheRow.syntax_state.updated

\* C22 as the code has it: Row::insert_char, Row::delete_char and
\* Row::append_str leave the SyntaxState of the row marked not-updated, and so
\* does Row::split at an offset before the end of the row; Row::split at the
\* length of the row splits nothing off and leaves the updated flag as it was.
C22_RowEditInvalidatesUnlessNothingSplitOff ==
    RowEdited =>
        IF SplitAtEnd
        THEN TheRow.syntax_state.updated = hist.calls[1].before.updated
        ELSE ~TheRow.syntax_state.updated

\* a row that was updated, split before its end: the row is not updated now
C22_Witness ==
    /\ RowEdited
    /\ hist.calls[1].op = "Row::split"
    /\ hist.calls[1].before.updated
    /\ hist.calls[1].before.at < hist.calls[1].before.len
    /\ ~TheRow.syntax_state.updated

\* a row that was updated, split at its length: the row is still updated
C22_WitnessAtEnd ==
    /\ RowEdited
    /\ SplitAtEnd
    /\ hist.calls[1].before.updated
    /\ TheRow.syntax_state.updated

----------------------------------------------------------------------------
(* The lexer on one row: a file of one line, loaded and highlighted once    *)

MaxLexLen == 4

\* / * " \ and U+00E9
LexAlphabet == {47, 42, 34, 92, 233}

\* the lines of the files: every text up to MaxLexLen, and "// hi"
LexLines == SeqsUpTo(LexAlphabet, MaxLexLen) \cup {<<47, 47, 32, 104, 105>>}

InitLex ==
    /\ \E line \in LexLines : buffer = FromFile(<<line>>, "c", Size(8, 1))
    /\ find = NoFind
    /\ hist = NoHist
    /\ DecoderIdle /\ RowIdle /\ RenderIdle /\ EditorIdle

NextLex == UpdateHighlightCall

SpecLex == InitLex /\ [][NextLex]_vars

\* the character at which // first starts outside a string and outside a
\* /* */ comment, reading s from character i on in the region `in` ("" for
\* plain text, "*/" inside a comment, the quote inside a string); 0 when none
RECURSIVE CommentStart(_, _, _)
CommentStart(s, i, in) ==
    IF i > Len(s) THEN 0
    ELSE IF in = <<>>
    THEN IF StartsWith(s, i, <<47, 47>>) THEN i
         ELSE IF StartsWith(s, i, <<47, 42>>) THEN CommentStart(s, i + 2, <<42, 47>>)
         ELSE IF s[i] \in {34, 39} THEN CommentStart(s, i + 1, <<s[i]>>)
         ELSE CommentStart(s, i + 1, in)
    ELSE IF in = <<42, 47>>
    THEN IF StartsWith(s, i, in) THEN CommentStart(s, i + 2, <<>>)
         ELSE CommentStart(s, i + 1, in)
    ELSE IF s[i] = 92 THEN CommentStart(s, i + 2, in)
    ELSE IF s[i] = in[1] THEN CommentStart(s, i + 1, <<>>)
    ELSE CommentStart(s, i + 1, in)

\* the row of the file has been lexed by the pass
Lexed == Live /\ hist.calls # <<>> /\ TheRow.syntax_state.updated

\* C13: in a row lexed from the open state None, every byte from the first //
\* outside strings and multi-line comments to the end of the row is tagged
\* SingleLineComment, and the row ends in the open state None.
C13_SingleLineCommentToEndOfRow ==
    (Lexed /\ CommentStart(TheRow.chars, 1, <<>>) # 0) =>
        /\ \A t \in ByteIdx(TheRow.chars, CommentStart(TheRow.chars, 1, <<>>)) + 1
                      .. StrLen(TheRow.chars) :
               TheRow.syntax_state.highlight[t] = SingleLineComment
        /\ Len(TheRow.syntax_state.highlight) = StrLen(TheRow.chars)
        /\ TheRow.syntax_state.open = OpenNone

\* the row "// hi", tagged comment in full
C13_Witness ==
    /\ Lexed
    /\ TheRow.chars = <<47, 47, 32, 104, 105>>
    /\ TheRow.syntax_state.highlight = Repeat(SingleLineComment, 5)

\* the row ""// : the comment starts after a closed string
C13_WitnessAfterString ==
    /\ Lexed
    /\ TheRow.chars = <<34, 34, 47, 47>>
    /\ TheRow.syntax_state.highlight = <<String, String, SingleLineComment, SingleLineComment>>

----------------------------------------------------------------------------
(* Editing sessions on a file with a carriage return inside a line          *)

\* the lines of the file: U+00E9 and a CR b (BufReader::lines splits at \n and
\* strips one \r\n from the end of a line; a \r inside the line stays)
EditFile == <<<<233>>, <<97, 13, 98>>>>

\* Editor::open(filename); the session makes up to MaxEdits + 1 edits
InitEdit ==
    /\ buffer = FromFile(EditFile, "no ft", Size(8, 2))
    /\ find = NoFind
    /\ hist = [edits |-> 0, budget |-> MaxEdits + 1, calls |-> <<>>]
    /\ DecoderIdle /\ RowIdle /\ RenderIdle /\ EditorIdle

NextEdit ==
    \/ MoveCursorCall
    \/ InsertCharCall
    \/ InsertNewlineCall
    \/ DeleteCharCall
    \/ DeleteBackCharCall

SpecEdit == InitEdit /\ [][NextEdit]_vars

\* the last two calls were insert_newline with the cursor in a row of the
\* buffer, then delete_back_char
NewlineThenBack ==
    /\ Len(hist.calls) = 2
    /\ hist.calls[2].op = "delete_back_char"
    /\ HasRow(hist.calls[1].before, hist.calls[1].before.c.y)

\* C16: insert_newline with the cursor at an offset of a row, followed at once
\* by delete_back_char, leaves the number of rows and the text of that row as
\* they were, and the cursor back at the offset.
C16_NewlineThenBackRoundTrip ==
    NewlineThenBack =>
        /\ ~buffer.panic
        /\ Len(buffer.rows) = Len(hist.calls[1].before.rows)
        /\ buffer.rows[hist.calls[1].before.c.y + 1].chars =
               hist.calls[1].before.rows[hist.calls[1].before.c.y + 1].chars
        /\ buffer.c = hist.calls[1].before.c

----------------------------------------------------------------------------
(* Incremental search: find.rs drives the search from the prompt callback;  *)
(* text_buffer.rs and text_buffer_view.rs hold it in a Find object.  The    *)
(* three are modelled side by side, find.api naming the one in use.         *)

MaxQueryLen == 2

\* the characters typed into the prompt: a and b
QueryChars == {97, 98}

FindApis == {"find", "text_buffer", "text_buffer_view"}

\* SyntaxState::set_overlay and clear_overlay: the overlay lies over the byte
\* range and leaves the computed tags, open and updated alone
SetOverlay(state, s, e, hl) == [state EXCEPT !.overlay = <<s, e, hl>>]
ClearOverlay(state) == [state EXCEPT !.overlay = <<>>]

\* the tags of a row as they are drawn: the computed tags under the overlay
Shown(state) ==
    [t \in 1 .. Len(state.highlight) |->
        IF state.overlay # <<>> /\ t > state.overlay[1] /\ t <= state.overlay[2]
        THEN state.overlay[3]
        ELSE state.highlight[t]]

\* find_start: the Find object (the locals of find.rs); TextBufferView's has
\* no saved_origin.  start, from, applied and removed are history: the cursor
\* and origin at the start, where the last search began (and whether at the
\* cursor), and the rows around the last overlay put on / taken off
FindStart(b, api) ==
    [api |-> api, phase |-> "active",
     saved_c |-> b.c,
     saved_origin |-> IF api = "text_buffer_view" THEN <<>> ELSE <<b.origin>>,
     saved_highlight |-> <<>>,
     is_forward |-> TRUE,
     last_match |-> <<>>,
     query |-> <<>>,
     start |-> [c |-> b.c, origin |-> b.origin],
     from |-> <<>>,
     applied |-> <<>>,
     removed |-> <<>>]

\* the buffer and the Find object a call works on
St(b, f) == [b |-> b, f |-> f]

\* restore_highlight (text_buffer.rs 344-348) and find.rs 33-35, where
\* highlight_mut asserts that the row is updated
RestoreHighlight(st) ==
    IF st.f.saved_highlight = <<>> THEN st
    ELSE IF st.f.api = "find"
    THEN IF ~st.b.rows[st.f.saved_highlight[1] + 1].syntax_state.updated
         THEN St(Panicked(st.b), st.f)
         ELSE St([st.b EXCEPT !.rows[st.f.saved_highlight[1] + 1].syntax_state.highlight =
                                   st.f.saved_highlight[2]],
                 [st.f EXCEPT !.saved_highlight = <<>>])
    ELSE St([st.b EXCEPT !.rows[st.f.saved_highlight[1] + 1].syntax_state = ClearOverlay(@)],
            [st.f EXCEPT !.saved_highlight = <<>>])

\* the restore with its history: what the call took off, and the tags the
\* row had before (plain) and after (marked) the overlay was put on
Restored(st) ==
    IF st.f.saved_highlight = <<>> THEN [st EXCEPT !.f.removed = <<>>]
    ELSE St(RestoreHighlight(st).b,
            [RestoreHighlight(st).f EXCEPT
                !.applied = <<>>,
                !.removed = <<[idx |-> st.f.saved_highlight[1],
                               plain |-> Shown(st.f.applied[1].before[st.f.saved_highlight[1] + 1].syntax_state),
                               marked |-> Shown(st.f.applied[1].after[st.f.saved_highlight[1] + 1].syntax_state),
                               before |-> st.b.rows,
                               after |-> RestoreHighlight(st).b.rows]>>])

\* Faulty variant of ApplyMatch: the tags of the whole row become Match
ApplyMatchWholeRow(b, api, cy, cx, s_len) ==
    IF api = "find"
    THEN [b EXCEPT !.rows[cy + 1].syntax_state.highlight =
                       [t \in 1 .. Len(@) |-> Match]]
    ELSE [b EXCEPT !.rows[cy + 1].syntax_state = SetOverlay(@, cx, cx + s_len, Match)]

\* the match shown: find.rs 73-75 writes Match into the tags, the Find
\* objects call set_overlay
ApplyMatch(b, api, cy, cx, s_len) ==
    IF api = "find"
    THEN [b EXCEPT !.rows[cy + 1].syntax_state.highlight =
                       [t \in 1 .. Len(@) |-> IF t > cx /\ t <= cx + s_len THEN Match ELSE @[t]]]
    ELSE [b EXCEPT !.rows[cy + 1].syntax_state = SetOverlay(@, cx, cx + s_len, Match)]

\* what is remembered for the restore: find.rs the row and a copy of its
\* tags, the Find objects the row
SavedHighlight(b, api, cy) ==
    IF api = "find" THEN <<cy, b.rows[cy + 1].syntax_state.highlight>> ELSE <<cy>>

\* a match at byte cx of row cy: last_match, the cursor, the overlay
Matched(st, cy, cx, s_len) ==
    St([ApplyMatch(st.b, st.f.api, cy, cx, s_len) EXCEPT !.c = Point(cx, cy)],
       [st.f EXCEPT !.last_match = <<cy, cx, cx + s_len>>,
                    !.saved_highlight = SavedHighlight(st.b, st.f.api, cy),
                    !.applied = <<[idx |-> cy, s |-> cx, e |-> cx + s_len,
                                   before |-> st.b.rows,
                                   after |-> ApplyMatch(st.b, st.f.api, cy, cx, s_len).rows]>>])

\* chars[from..].match_indices(query).next(): the character the first match
\* from the byte `from` on starts at, 0 when there is none
MatchForward(chars, from, query) ==
    IF query = <<>> THEN CharsBefore(chars, from) + 1
    ELSE FirstMatch(chars, CharsBefore(chars, from) + 1, query)

\* Faulty variant of MatchBackward: the first match before the byte `to`
MatchBackwardFirst(chars, to, query) ==
    IF query = <<>> THEN 1
    ELSE IF \E j \in 1 .. CharsBefore(chars, to) :
               j + Len(query) - 1 <= CharsBefore(chars, to) /\ StartsWith(chars, j, query)
    THEN FirstMatch(chars, 1, query)
    ELSE 0

\* chars[..to].rmatch_indices(query).next(): the character the last match
\* that ends at or before the byte `to` starts at, 0 when there is none
MatchBackward(chars, to, query) ==
    IF query = <<>> THEN CharsBefore(chars, to) + 1
    ELSE IF \E j \in 1 .. CharsBefore(chars, to) :
               j + Len(query) - 1 <= CharsBefore(chars, to) /\ StartsWith(chars, j, query)
    THEN CHOOSE j \in 1 .. CharsBefore(chars, to) :
             /\ j + Len(query) - 1 <= CharsBefore(chars, to) /\ StartsWith(chars, j, query)
             /\ \A k \in j + 1 .. CharsBefore(chars, to) :
                    ~(k + Len(query) - 1 <= CharsBefore(chars, to) /\ StartsWith(chars, k, query))
    ELSE 0

\* the match in row cy, between the bytes cx_s and cx_e of the last one
MatchIn(st, cy, cx_s, cx_e) ==
    IF st.f.is_forward
    THEN MatchForward(st.b.rows[cy + 1].chars, cx_e, st.f.query)
    ELSE MatchBackward(st.b.rows[cy + 1].chars, cx_s, st.f.query)

\* the row the loop goes on to
NextRowOf(st, cy) ==
    IF st.f.is_forward THEN (cy + 1) % Len(st.b.rows)
    ELSE IF cy = 0 THEN Len(st.b.rows) - 1
    ELSE cy - 1

\* find.rs 56-58: the row is lexed before it is searched
Visited(st, cy) ==
    IF st.f.api = "find"
    THEN St([st.b EXCEPT !.rows = UpdateRow(@, SyntaxOf(st.b.syntax), cy)], st.f)
    ELSE st

\* the passes of the search loop: 0..rows.len() in find.rs, 0..=rows.len()
\* in the Find objects
Passes(st) == IF st.f.api = "find" THEN Len(st.b.rows) ELSE Len(st.b.rows) + 1

\* the search loop from row cy on with n passes left; rows[cy] and
\* get3_mut(cy)'s row.unwrap() panic when cy is not a row
RECURSIVE SearchLoop(_, _, _, _, _)
SearchFrom(st, cy, cx_s, cx_e, n) ==
    IF MatchIn(st, cy, cx_s, cx_e) # 0
    THEN Matched(st, cy, ByteIdx(st.b.rows[cy + 1].chars, MatchIn(st, cy, cx_s, cx_e)),
                 StrLen(st.f.query))
    ELSE SearchLoop(st, NextRowOf(st, cy), RowLen(st.b, NextRowOf(st, cy)), 0, n - 1)
SearchLoop(st, cy, cx_s, cx_e, n) ==
    IF n = 0 THEN st
    ELSE IF ~HasRow(st.b, cy) THEN St(Panicked(st.b), st.f)
    ELSE SearchFrom(Visited(st, cy), cy, cx_s, cx_e, n)

\* Find::search and find.rs 53-90
Search(st) ==
    IF st.b.panic THEN st
    ELSE IF st.f.last_match # <<>>
    THEN SearchLoop([st EXCEPT !.f.from = <<[c |-> st.b.c, at_cursor |-> FALSE]>>],
                    st.f.last_match[1], st.f.last_match[2], st.f.last_match[3], Passes(st))
    ELSE SearchLoop([st EXCEPT !.f.from = <<[c |-> st.b.c, at_cursor |-> TRUE]>>],
                    st.b.c.y, st.b.c.x, st.b.c.x, Passes(st))

\* Find::input, search_forward, search_backward, execute
FindInput(st, query) ==
    Search([Restored(st) EXCEPT !.f.last_match = <<>>, !.f.query = query])
FindSearchForward(st) == Search([Restored(st) EXCEPT !.f.is_forward = TRUE])
FindSearchBackward(st) == Search([Restored(st) EXCEPT !.f.is_forward = FALSE])
FindExecute(st) == [Restored(st) EXCEPT !.f.phase = "executed", !.f.from = <<>>]

\* Find::cancel and find.rs 46-50; TextBufferView's restores the cursor only
FindCancel(st) ==
    IF Restored(st).b.panic THEN Restored(st)
    ELSE [Restored(st) EXCEPT
             !.f.phase = "cancelled",
             !.f.from = <<>>,
             !.b.c = st.f.saved_c,
             !.b.origin = IF st.f.saved_origin = <<>> THEN @ ELSE st.f.saved_origin[1]]

Finding == Live /\ find # NoFind /\ find.phase = "active"

\* Ctrl-G: find_start, the key read after a refresh_screen that left the
\* cursor in the viewport; a TextBufferView keeps its cursor in a row, if
\* the buffer has one
FindStartCall ==
    /\ Live /\ find = NoFind /\ scroll(buffer) = buffer
    /\ \E api \in FindApis :
           /\ api = "text_buffer_view" => HasRow(buffer, buffer.c.y) \/ buffer.rows = <<>>
           /\ find' = FindStart(buffer, api)
    /\ UNCHANGED <<buffer, hist, render, rowVars, decVars, editor, libVars>>

\* a character typed into the prompt, or the last one deleted
FindInputCall ==
    /\ Finding
    /\ \E query \in {find.query \o <<ch>> : ch \in QueryChars}
                      \cup {SubSeq(find.query, 1, Len(find.query) - 1)} :
           /\ Len(query) <= MaxQueryLen
           /\ buffer' = FindInput(St(buffer, find), query).b
           /\ find' = FindInput(St(buffer, find), query).f
    /\ UNCHANGED <<hist, render, rowVars, decVars, editor, libVars>>

\* ArrowRight / ArrowDown
FindSearchForwardCall ==
    /\ Finding
    /\ buffer' = FindSearchForward(St(buffer, find)).b
    /\ find' = FindSearchForward(St(buffer, find)).f
    /\ UNCHANGED <<hist, render, rowVars, decVars, editor, libVars>>

\* ArrowLeft / ArrowUp
FindSearchBackwardCall ==
    /\ Finding
    /\ buffer' = FindSearchBackward(St(buffer, find)).b
    /\ find' = FindSearchBackward(St(buffer, find)).f
    /\ UNCHANGED <<hist, render, rowVars, decVars, editor, libVars>>

\* Enter, with a query typed
FindExecuteCall ==
    /\ Finding /\ find.query # <<>>
    /\ buffer' = FindExecute(St(buffer, find)).b
    /\ find' = FindExecute(St(buffer, find)).f
    /\ UNCHANGED <<hist, render, rowVars, decVars, editor, libVars>>

\* Esc
FindCancelCall ==
    /\ Finding
    /\ buffer' = FindCancel(St(buffer, find)).b
    /\ find' = FindCancel(St(buffer, find)).f
    /\ UNCHANGED <<hist, render, rowVars, decVars, editor, libVars>>

\* refresh_screen, in the editor's loop and in the prompt loop: scroll, then
\* the update pass of the draw
RefreshScreenCall ==
    /\ Live /\ (IF find = NoFind THEN TRUE ELSE find.phase = "active")
    /\ buffer' = update_highlight(scroll(buffer))
    /\ UNCHANGED <<find, hist, render, rowVars, decVars, editor, libVars>>

\* refresh_screen in the editor's loop after the prompt has returned: the
\* Find object is gone
FindClosedCall ==
    /\ Live /\ find # NoFind /\ find.phase \in {"executed", "cancelled"}
    /\ buffer' = update_highlight(scroll(buffer))
    /\ find' = [find EXCEPT !.phase = "closed"]
    /\ UNCHANGED <<hist, render, rowVars, decVars, editor, libVars>>

\* the files searched, by their lines:  ab U+00E9 b     b ab     aab a
\* /* (empty) a     and the empty file
FindFiles ==
    {<<<<97, 98>>, <<233, 98>>>>,
     <<<<98>>, <<97, 98>>>>,
     <<<<97, 97, 98>>, <<97>>>>,
     <<<<47, 42>>, <<>>, <<97>>>>,
     <<>>}

\* one screen row of one column: every move of the cursor scrolls
FindSizes == {Size(1, 1)}

InitFind ==
    /\ \E lines \in FindFiles : \E z \in FindSizes : buffer = FromFile(lines, "c", z)
    /\ find = NoFind
    /\ hist = NoHist
    /\ DecoderIdle /\ RowIdle /\ RenderIdle /\ EditorIdle

NextFind ==
    \/ MoveCursorCall
    \/ RefreshScreenCall
    \/ FindStartCall
    \/ FindInputCall
    \/ FindSearchForwardCall
    \/ FindSearchBackwardCall
    \/ FindExecuteCall
    \/ FindCancelCall
    \/ FindClosedCall

SpecFind == InitFind /\ [][NextFind]_vars

----------------------------------------------------------------------------
(* Claims about the search *)

\* the query occurs in row y (from 0) at the bytes s .. e
Occurs(b, query, y, s, e) ==
    /\ HasRow(b, y)
    /\ IsCharBoundary(b.rows[y + 1].chars, s)
    /\ e = s + StrLen(query)
    /\ StartsWith(b.rows[y + 1].chars, CharsBefore(b.rows[y + 1].chars, s) + 1, query)

\* every place a query of the session can occur at
Places(b) == (0 .. Len(b.rows) - 1) \X (0 .. MaxQueryLen * 2) \X (0 .. MaxQueryLen * 4)

\* the last call searched forward from the cursor c for a non-empty query
\* that occurs in the buffer, and only before c
SearchedPastAll ==
    /\ find # NoFind /\ find.phase = "active"
    /\ find.from # <<>> /\ find.from[1].at_cursor
    /\ find.is_forward /\ find.query # <<>>
    /\ buffer.rows # <<>>
    /\ \E p \in Places(buffer) : Occurs(buffer, find.query, p[1], p[2], p[3])
    /\ \A p \in Places(buffer) :
           Occurs(buffer, find.query, p[1], p[2], p[3]) =>
               \/ p[1] < find.from[1].c.y
               \/ p[1] = find.from[1].c.y /\ p[3] <= find.from[1].c.x

\* C17: a forward search from the cursor for a query whose occurrences all lie
\* before the cursor wraps around, finds one of them and puts the cursor on its
\* first byte.
C17_ForwardSearchWraps ==
    SearchedPastAll =>
        /\ ~buffer.panic
        /\ find.last_match # <<>>
        /\ Occurs(buffer, find.query, find.last_match[1], find.last_match[2], find.last_match[3])
        /\ buffer.c = Point(find.last_match[2], find.last_match[1])

\* C18: after a cancel the cursor and the origin of the viewport are those of
\* the start of the search.
C18_CancelRestoresCursorAndOrigin ==
    (find # NoFind /\ find.phase = "cancelled" /\ ~buffer.panic) =>
        /\ buffer.c = find.start.c
        /\ buffer.origin = find.start.origin

\* the open state and the updated flag of every row are the same in both,
\* and the rows other than idx are the same altogether
SameButTags(before, after, idx) ==
    /\ Len(after) = Len(before)
    /\ \A i \in 1 .. Len(before) :
           /\ after[i].chars = before[i].chars
           /\ after[i].syntax_state.open = before[i].syntax_state.open
           /\ after[i].syntax_state.updated = before[i].syntax_state.updated
           /\ i # idx + 1 => after[i] = before[i]

\* C19: putting the match overlay on a byte range of a row changes the tags
\* of that range only; taking it off a row whose tags are still as the overlay
\* left them gives the row the tags it had before the overlay; neither changes
\* the open state or the updated flag of the row or anything of another row.
C19_OverlayOnAndOff ==
    find # NoFind =>
        /\ find.applied # <<>> =>
               /\ SameButTags(find.applied[1].before, find.applied[1].after, find.applied[1].idx)
               /\ \A t \in 1 .. Len(Shown(find.applied[1].before[find.applied[1].idx + 1].syntax_state)) :
                      Shown(find.applied[1].after[find.applied[1].idx + 1].syntax_state)[t] =
                          IF t > find.applied[1].s /\ t <= find.applied[1].e
                          THEN Match
                          ELSE Shown(find.applied[1].before[find.applied[1].idx + 1].syntax_state)[t]
        /\ find.removed # <<>> =>
               /\ ~buffer.panic
               /\ SameButTags(find.removed[1].before, find.removed[1].after, find.removed[1].idx)
               /\ Shown(find.removed[1].before[find.removed[1].idx + 1].syntax_state) =
                      find.removed[1].marked
                  => Shown(find.removed[1].after[find.removed[1].idx + 1].syntax_state) =
                         find.removed[1].plain

\* find.rs: a match was shown in a lexed row of three bytes and has been
\* taken off by Enter
C19_Witness ==
    /\ find # NoFind /\ find.api = "find" /\ find.phase = "executed"
    /\ find.removed # <<>>
    /\ Len(find.removed[1].plain) = 3
    /\ find.removed[1].marked # find.removed[1].plain
    /\ Shown(find.removed[1].before[find.removed[1].idx + 1].syntax_state) = find.removed[1].marked
    /\ Shown(buffer.rows[find.removed[1].idx + 1].syntax_state) = find.removed[1].plain

----------------------------------------------------------------------------
(* Cursor moves and scrolling *)

\* the lines of the file:  U+3042 b U+00E9    (empty)    tab a    a b
ScrollFile == <<<<12354, 98, 233>>, <<>>, <<TAB, 97>>, <<97, 98>>>>

\* viewports of 1 x 1, 3 x 2 and 9 x 4 (columns x rows)
ScrollSizes == {Size(1, 1), Size(3, 2), Size(9, 4)}

InitScroll ==
    /\ \E z \in ScrollSizes : buffer = FromFile(ScrollFile, "no ft", z)
    /\ find = NoFind
    /\ hist = NoHist
    /\ DecoderIdle /\ RowIdle /\ RenderIdle /\ EditorIdle

NextScroll ==
    \/ MoveCursorCall
    \/ ScrollCall

SpecScroll == InitScroll /\ [][NextScroll]_vars

\* the last call was scroll
Scrolled == Live /\ hist.calls # <<>> /\ hist.calls[1].op = "scroll"

\* the origin on one axis after the smallest move that shows the cursor
Nearest(origin, cursor, size) ==
    IF cursor < origin THEN cursor
    ELSE IF cursor >= origin + size THEN cursor - size + 1
    ELSE origin

\* C20: scroll moves the origin on each axis to the cursor when the cursor is
\* before it, to cursor - size + 1 when the cursor is at or past origin + size,
\* and not at all otherwise, the horizontal axis by the rendered column of the
\* cursor; afterwards the cursor is inside the viewport and so is the screen
\* point returned.
C20_ScrollIsMinimal ==
    Scrolled =>
        /\ buffer.origin.y = Nearest(hist.calls[1].before.origin.y, hist.calls[1].before.c.y,
                                     buffer.size.rows)
        /\ buffer.origin.x = Nearest(hist.calls[1].before.origin.x, CursorRx(hist.calls[1].before),
                                     buffer.size.cols)
        /\ buffer.c = hist.calls[1].before.c
        /\ buffer.origin.y <= buffer.c.y /\ buffer.c.y < buffer.origin.y + buffer.size.rows
        /\ buffer.origin.x <= CursorRx(buffer) /\ CursorRx(buffer) < buffer.origin.x + buffer.size.cols
        /\ ScrollPoint(hist.calls[1].before) =
               Point(CursorRx(buffer) - buffer.origin.x, buffer.c.y - buffer.origin.y)
        /\ ScrollPoint(hist.calls[1].before).x \in 0 .. buffer.size.cols - 1
        /\ ScrollPoint(hist.calls[1].before).y \in 0 .. buffer.size.rows - 1

\* the cursor was past the viewport on both axes: the origin moved down and
\* right by the least amount
C20_Witness ==
    /\ Scrolled
    /\ hist.calls[1].before.origin = Point(0, 0)
    /\ buffer.size = Size(3, 2)
    /\ buffer.c.y > 1
    /\ CursorRx(buffer) > 3
    /\ buffer.origin = Point(CursorRx(buffer) - 2, buffer.c.y - 1)

\* the cursor was before the origin on both axes: the origin moved to it
C20_WitnessBack ==
    /\ Scrolled
    /\ hist.calls[1].before.origin.x > CursorRx(buffer)
    /\ hist.calls[1].before.origin.y > buffer.c.y
    /\ buffer.origin = Point(CursorRx(buffer), buffer.c.y)

----------------------------------------------------------------------------
(* Edits, update passes and saves: the dirty flag and the invalidation of   *)
(* the edited row                                                           *)

\* the lines of the file:  a    (empty)    b
DirtyFile == <<<<97>>, <<>>, <<98>>>>

InitDirty ==
    /\ buffer = FromFile(DirtyFile, "c", Size(8, 2))
    /\ find = NoFind
    /\ hist = [edits |-> 0, budget |-> MaxEdits, calls |-> <<>>]
    /\ DecoderIdle /\ RowIdle /\ RenderIdle /\ EditorIdle

NextDirty ==
    \/ MoveCursorCall
    \/ InsertCharCall
    \/ InsertNewlineCall
    \/ DeleteCharCall
    \/ DeleteBackCharCall
    \/ UpdateHighlightCall
    \/ SaveCall

SpecDirty == InitDirty /\ [][NextDirty]_vars

EditOps == {"insert_char", "insert_newline", "delete_char", "delete_back_char"}

\* the texts of the rows
Texts(b) == [y \in 1 .. Len(b.rows) |-> b.rows[y].chars]

\* the last call, when it was an edit that did not panic and changed the rows
LastEdit == hist.calls[Len(hist.calls)]
RowsEdited ==
    /\ Live
    /\ hist.calls # <<>>
    /\ LastEdit.op \in EditOps
    /\ Texts(buffer) # Texts(LastEdit.before)

\* the row the last edit worked on: the cursor's row when it was called, for
\* delete_back_char the cursor's row after its move to the left
EditedRow ==
    IF LastEdit.op = "delete_back_char" THEN move_cursor(LastEdit.before, "Left").c.y
    ELSE LastEdit.before.c.y

\* the row y of the buffer is not marked updated
NotUpdated(y) == ~buffer.rows[y + 1].syntax_state.updated

\* the text of the row EditedRow is not what it was before the last edit
TextChanged ==
    IF HasRow(LastEdit.before, EditedRow)
    THEN buffer.rows[EditedRow + 1].chars # LastEdit.before.rows[EditedRow + 1].chars
    ELSE TRUE

\* the rows the last edit wrote to are not marked updated: the row it worked
\* on, and for insert_newline the row it created after that one; a row at whose
\* end insert_newline was called is not written to
EditedRowsInvalid ==
    IF LastEdit.op = "insert_newline"
    THEN /\ TextChanged => NotUpdated(EditedRow)
         /\ HasRow(LastEdit.before, EditedRow) => NotUpdated(EditedRow + 1)
    ELSE NotUpdated(EditedRow)

\* a step in which the dirty flag goes from true to false
Cleaned == buffer.is_dirty /\ ~buffer'.is_dirty

\* a step that is a save that succeeded
SaveSucceeded == hist'.calls = <<[op |-> "save", ok |-> TRUE]>>

C21_WitnessSaveFailed ==
    /\ Live
    /\ hist.calls = <<[op |-> "save", ok |-> FALSE]>>
    /\ buffer.is_dirty

\* insert_newline at the end of a row that was lexed: that row is still updated
C21_WitnessNewlineAtEnd ==
    /\ RowsEdited
    /\ LastEdit.op = "insert_newline"
    /\ HasRow(LastEdit.before, EditedRow)
    /\ buffer.rows[EditedRow + 1].syntax_state.updated

----------------------------------------------------------------------------
(* The Editor and its file commands (editor.rs): open pushes a buffer read  *)
(* from a file, save writes the current one, asking for a name when it has  *)
(* none.  What the file system and the prompt answer are inputs.            *)

MaxBuffers == 2

\* Option<PathBuf>: no filename, or a file name with its extension
NoFilename == [name |-> "", ext |-> ""]
FileNames == {[name |-> "a", ext |-> "c"], [name |-> "n", ext |-> "txt"]}

\* Syntax::select, by the filetype of the table: the extensions of filematch
select(filename) ==
    IF filename = NoFilename THEN "no ft"
    ELSE IF filename.ext \in {"c", "h", "cpp"} THEN "c"
    ELSE IF filename.ext = "rs" THEN "rust"
    ELSE "no ft"

\* a TextBufferView of the editor: the TextBuffer and its filename
View(filename, b) == [filename |-> filename, buffer |-> b]

\* TextBuffer::set_filename
set_filename(view, filename) ==
    View(filename,
         [view.buffer EXCEPT !.syntax = select(filename),
                             !.rows = [y \in 1 .. Len(@) |-> invalidate_syntax(@[y])]])

\* StatusMessage: none, or the message set last
NoMessage == [text |-> ""]
set_status_message(e, text) == [e EXCEPT !.status_message = [text |-> text]]

\* Editor::new
EditorNew(render_size) ==
    [buffer_view |-> <<>>, buffer_idx |-> 0, render_size |-> render_size,
     status_message |-> NoMessage]

\* what file::open returns: the lines of the file, or an Open or Read error
OpenOk(lines) == [ok |-> TRUE, lines |-> lines]
OpenErr(kind) == [ok |-> FALSE, error |-> kind]
OpenResults ==
    {OpenOk(<<>>), OpenOk(<<<<47, 42>>>>),
     OpenErr("Could not open file"), OpenErr("Could not read file")}

\* Editor::open, res what file::open returned
EditorOpen(e, filename, res) ==
    IF res.ok
    THEN [e EXCEPT !.buffer_idx = Len(e.buffer_view),
                   !.buffer_view = Append(@, View(filename,
                       FromFile(res.lines, select(filename), e.render_size)))]
    ELSE set_status_message(e, res.error)

\* self.buffer_view.get(self.buffer_idx) is Some
HasBuffer(e) == e.buffer_idx < Len(e.buffer_view)
Current(e) == e.buffer_view[e.buffer_idx + 1]

\* the match on TextBuffer::save at the end of Editor::save
EditorWrite(e, ok) ==
    set_status_message([e EXCEPT !.buffer_view[e.buffer_idx + 1].buffer = save(@, ok)],
                       IF ok THEN "bytes written to disk" ELSE "Can't save!")

\* Editor::save, answer what the prompt returned (NoFilename when it was
\* cancelled) and ok whether file::save wrote the file
EditorSave(e, answer, ok) ==
    IF ~HasBuffer(e) THEN e
    ELSE IF Current(e).filename # NoFilename THEN EditorWrite(e, ok)
    ELSE IF answer = NoFilename THEN set_status_message(e, "Save aborted")
    ELSE EditorWrite([e EXCEPT !.buffer_view[e.buffer_idx + 1] = set_filename(@, answer)], ok)

\* Editor::buffer_view_or_create
buffer_view_or_create(e) ==
    IF e.buffer_view = <<>>
    THEN [e EXCEPT !.buffer_view = <<View(NoFilename, FromFile(<<>>, select(NoFilename), e.render_size))>>]
    ELSE e

\* Editor::insert_char on a buffer that can be written
EditorInsertChar(e, ch) ==
    [buffer_view_or_create(e) EXCEPT !.buffer_view[e.buffer_idx + 1].buffer = insert_char(@, ch)]

\* Editor::next_buffer
next_buffer(e) ==
    IF e.buffer_view # <<>> THEN [e EXCEPT !.buffer_idx = (@ + 1) % Len(e.buffer_view)] ELSE e

\* a file command and the editor before it; failed: the file could not be
\* opened or read, or could not be written
FileCall(op, failed) == [op |-> op, before |-> editor, failed |-> failed]

EditorOpenCall ==
    /\ editor # NoEditor
    /\ Len(editor.buffer_view) < MaxBuffers
    /\ \E filename \in FileNames, res \in OpenResults :
           /\ editor' = EditorOpen(editor, filename, res)
           /\ hist' = [hist EXCEPT !.calls = <<FileCall("open", ~res.ok)>>]
    /\ UNCHANGED <<buffer, find, render, rowVars, decVars, libVars>>

EditorSaveCall ==
    /\ editor # NoEditor
    /\ \E answer \in FileNames \cup {NoFilename}, ok \in BOOLEAN :
           /\ editor' = EditorSave(editor, answer, ok)
           /\ hist' = [hist EXCEPT !.calls =
                  <<FileCall("save", /\ HasBuffer(editor)
                                     /\ Current(editor).filename = NoFilename => answer # NoFilename
                                     /\ ~ok)>>]
    /\ UNCHANGED <<buffer, find, render, rowVars, decVars, libVars>>

EditorInsertCharCall ==
    /\ editor # NoEditor
    /\ hist.edits < hist.budget
    /\ \E ch \in TypedChars : editor' = EditorInsertChar(editor, ch)
    /\ hist' = Edited(hist)
    /\ UNCHANGED <<buffer, find, render, rowVars, decVars, libVars>>

EditorNextBufferCall ==
    /\ editor # NoEditor
    /\ editor' = next_buffer(editor)
    /\ hist' = Forget(hist)
    /\ UNCHANGED <<buffer, find, render, rowVars, decVars, libVars>>

InitEditor ==
    /\ editor = EditorNew(Size(8, 2)) /\ LibIdle
    /\ buffer = NoBuffer /\ find = NoFind
    /\ hist = [edits |-> 0, budget |-> MaxEdits, calls |-> <<>>]
    /\ DecoderIdle /\ RowIdle /\ RenderIdle

NextEditor ==
    \/ EditorOpenCall
    \/ EditorSaveCall
    \/ EditorInsertCharCall
    \/ EditorNextBufferCall

SpecEditor == InitEditor /\ [][NextEditor]_vars

\* the last command was an open or a save in which the file operation failed
FileFailed == editor # NoEditor /\ hist.calls # <<>> /\ hist.calls[1].failed

\* what the claim compares of a buffer: filename, syntax table, dirty flag, texts
BufferState(view) ==
    [filename |-> view.filename, syntax |-> view.buffer.syntax,
     is_dirty |-> view.buffer.is_dirty, rows |-> Texts(view.buffer)]
BufferStates(e) == [i \in 1 .. Len(e.buffer_view) |-> BufferState(e.buffer_view[i])]

FailureTexts == {"Could not open file", "Could not read file", "Can't save!"}

\* C23: when the file cannot be opened or read in Editor::open, or cannot be
\* written in Editor::save, the command returns with a status message that
\* describes the failure and with the list of buffers, and the rows, dirty
\* flag, filename and syntax table of each buffer, as they were before it.
C23_FileFailureLeavesBuffers ==
    FileFailed =>
        /\ editor.status_message.text \in FailureTexts
        /\ BufferStates(editor) = BufferStates(hist.calls[1].before)

\* the same of the commands that do not ask for a filename: Editor::open, and
\* Editor::save of a buffer that has one
C23_HoldsOfNamedBuffers ==
    FileFailed /\ (hist.calls[1].op = "save" => Current(hist.calls[1].before).filename # NoFilename) =>
        /\ editor.status_message.text \in FailureTexts
        /\ BufferStates(editor) = BufferStates(hist.calls[1].before)

----------------------------------------------------------------------------
(* The chord keymap (keymap.rs): a trie of maps from Input to Action, an    *)
(* Action being a function or a sub-keymap.  Functions are told apart by    *)
(* the number of the insert call that bound them.                           *)

MaxChordLen == 3
MaxInserts == 3

\* the inputs of the chords: C-x and C-y
ChordInputs == {"C-x", "C-y"}
Chords == SeqsUpTo(ChordInputs, MaxChordLen) \ {<<>>}

\* Action::Func and Action::KeyMap
Func(act) == [kind |-> "Func", act |-> act]
SubKeyMap(km) == [kind |-> "KeyMap", km |-> km]

\* KeyMap::new: the empty map
KeyMapNew == [map |-> <<>>]

\* HashMap::insert
MapInsert(km, key, action) == [km EXCEPT !.map = (key :> action) @@ @]

\* what insert returns: None, or the inputs and the action that was displaced
NoneDisplaced == [some |-> FALSE]
Displaced(is, old) == [some |-> TRUE, is |-> is, old |-> old]

\* .map(|(mut is, old)| { is.push_front(input); (is, old) })
PushFront(key, ret) ==
    IF ret.some THEN Displaced(<<key>> \o ret.is, ret.old) ELSE ret

\* Faulty variant of KeyMapInsert: the inputs on the way down are not put
\* before the inputs returned from the sub-keymap
RECURSIVE KeyMapInsertLastInputOnly(_, _, _)
KeyMapInsertLastInputOnly(km, inputs, act) ==
    IF Len(inputs) = 1
    THEN [km |-> MapInsert(km, inputs[1], Func(act)),
          ret |-> IF inputs[1] \in DOMAIN km.map
                  THEN Displaced(<<inputs[1]>>, km.map[inputs[1]]) ELSE NoneDisplaced]
    ELSE IF inputs[1] \in DOMAIN km.map
    THEN IF km.map[inputs[1]].kind = "KeyMap"
         THEN [km |-> MapInsert(km, inputs[1],
                          SubKeyMap(KeyMapInsertLastInputOnly(km.map[inputs[1]].km, Tail(inputs), act).km)),
               ret |-> KeyMapInsertLastInputOnly(km.map[inputs[1]].km, Tail(inputs), act).ret]
         ELSE [km |-> MapInsert(km, inputs[1], Func(act)),
               ret |-> Displaced(<<inputs[1]>>, km.map[inputs[1]])]
    ELSE [km |-> MapInsert(km, inputs[1],
                     SubKeyMap(KeyMapInsertLastInputOnly(KeyMapNew, Tail(inputs), act).km)),
          ret |-> NoneDisplaced]

\* KeyMap::insert over a sequence of at least one input: the keymap after the
\* call and what the call returns
RECURSIVE KeyMapInsert(_, _, _)
KeyMapInsert(km, inputs, act) ==
    IF Len(inputs) = 1
    THEN [km |-> MapInsert(km, inputs[1], Func(act)),
          ret |-> IF inputs[1] \in DOMAIN km.map
                  THEN Displaced(<<inputs[1]>>, km.map[inputs[1]]) ELSE NoneDisplaced]
    ELSE IF inputs[1] \in DOMAIN km.map
    THEN IF km.map[inputs[1]].kind = "KeyMap"
         THEN [km |-> MapInsert(km, inputs[1],
                          SubKeyMap(KeyMapInsert(km.map[inputs[1]].km, Tail(inputs), act).km)),
               ret |-> PushFront(inputs[1], KeyMapInsert(km.map[inputs[1]].km, Tail(inputs), act).ret)]
         ELSE [km |-> MapInsert(km, inputs[1], Func(act)),
               ret |-> Displaced(<<inputs[1]>>, km.map[inputs[1]])]
    ELSE [km |-> MapInsert(km, inputs[1], SubKeyMap(KeyMapInsert(KeyMapNew, Tail(inputs), act).km)),
          ret |-> NoneDisplaced]

\* KeyMap::new, then calls of insert, each with a new function
InitKeyMap ==
    /\ keymap = [calls |-> 0, km |-> KeyMapNew, last |-> <<>>]
    /\ conv = NoConv
    /\ editor = NoEditor /\ buffer = NoBuffer /\ find = NoFind /\ hist = NoHist
    /\ DecoderIdle /\ RowIdle /\ RenderIdle

KeyMapInsertCall ==
    /\ keymap # NoKeyMap
    /\ keymap.calls < MaxInserts
    /\ \E inputs \in Chords :
           keymap' = [calls |-> keymap.calls + 1,
                      km |-> KeyMapInsert(keymap.km, inputs, keymap.calls + 1).km,
                      last |-> <<[inputs |-> inputs, before |-> keymap.km,
                                  ret |-> KeyMapInsert(keymap.km, inputs, keymap.calls + 1).ret]>>]
    /\ UNCHANGED <<conv, editor, buffer, find, hist, render, rowVars, decVars>>

NextKeyMap == KeyMapInsertCall

SpecKeyMap == InitKeyMap /\ [][NextKeyMap]_vars

\* the action bound at the key sequence seq of a keymap, if there is one
NoAction == [kind |-> "none"]
RECURSIVE BoundAt(_, _)
BoundAt(km, seq) ==
    IF seq[1] \notin DOMAIN km.map THEN NoAction
    ELSE IF Len(seq) = 1 THEN km.map[seq[1]]
    ELSE IF km.map[seq[1]].kind = "KeyMap" THEN BoundAt(km.map[seq[1]].km, Tail(seq))
    ELSE NoAction

\* the proper prefixes of seq that are bound to a function
FuncPrefixes(km, seq) ==
    {n \in 1 .. Len(seq) - 1 : BoundAt(km, SubSeq(seq, 1, n)).kind = "Func"}

Inserted == keymap # NoKeyMap /\ keymap.last # <<>>

\* what the claim says insert(seq) returns on the keymap km
Expected(km, seq) ==
    IF FuncPrefixes(km, seq) # {}
    THEN LET n == CHOOSE n \in FuncPrefixes(km, seq) : TRUE
         IN  Displaced(SubSeq(seq, 1, n), BoundAt(km, SubSeq(seq, 1, n)))
    ELSE IF BoundAt(km, seq) # NoAction THEN Displaced(seq, BoundAt(km, seq))
    ELSE NoneDisplaced

\* C24: KeyMap::insert(seq, act) returns None when nothing is bound on the
\* path of seq; otherwise it returns the action displaced and the key sequence
\* it was bound at: seq and the old function when seq was bound to a function,
\* seq and the old sub-keymap when seq is a proper prefix of chords bound
\* before, and the proper prefix of seq that was bound to a function, with
\* that function.
C24_InsertReturnsDisplaced ==
    Inserted => keymap.last[1].ret = Expected(keymap.last[1].before, keymap.last[1].inputs)

\* C-x C-x C-x and C-x C-x C-y bound, then C-x C-x: the sub-keymap is returned
C24_Witness ==
    /\ Inserted
    /\ keymap.last[1].inputs = <<"C-x", "C-x">>
    /\ keymap.last[1].ret.some
    /\ keymap.last[1].ret.is = <<"C-x", "C-x">>
    /\ keymap.last[1].ret.old.kind = "KeyMap"
    /\ DOMAIN keymap.last[1].ret.old.km.map = {"C-x", "C-y"}

\* C-x C-x bound to a function, then C-x C-x C-y: the prefix and its function
C24_WitnessPrefix ==
    /\ Inserted
    /\ keymap.last[1].inputs = <<"C-x", "C-x", "C-y">>
    /\ keymap.last[1].ret = Displaced(<<"C-x", "C-x">>, Func(1))

----------------------------------------------------------------------------
(* Display and FromStr of Key and Input (input.rs).  A string is the        *)
(* sequence of its characters.                                              *)

\* the strings of the named keys, in the order of the match in Key::fmt
KeyNames ==
    << <<"ArrowLeft",  <<108, 101, 102, 116>>>>,
       <<"ArrowRight", <<114, 105, 103, 104, 116>>>>,
       <<"ArrowUp",    <<117, 112>>>>,
       <<"ArrowDown",  <<100, 111, 119, 110>>>>,
       <<"Delete",     <<100, 101, 108, 101, 116, 101>>>>,
       <<"Home",       <<104, 111, 109, 101>>>>,
       <<"End",        <<101, 110, 100>>>>,
       <<"PageUp",     <<112, 97, 103, 101, 32, 117, 112>>>>,
       <<"PageDown",   <<112, 97, 103, 101, 32, 100, 111, 119, 110>>>> >>

\* < > and the strings C- and M-
LT == 60
GT == 62
CtrlPrefix == <<67, 45>>
AltPrefix == <<77, 45>>

\* impl Display for Key
KeyToString(key) ==
    IF key.kind = "Char" THEN <<key.ch>>
    ELSE KeyNames[CHOOSE n \in 1 .. Len(KeyNames) : KeyNames[n][1] = key.kind][2]

\* Result<Key, ParseKeyError> and Result<Input, ParseInputError>
Ok(v) == [ok |-> TRUE, value |-> v]
ParseErr(e) == [ok |-> FALSE, error |-> e]

\* impl FromStr for Key
KeyFromStr(s) ==
    IF \E n \in 1 .. Len(KeyNames) : KeyNames[n][2] = s
    THEN Ok(Named(KeyNames[CHOOSE n \in 1 .. Len(KeyNames) : KeyNames[n][2] = s][1]))
    ELSE IF Len(s) = 1 THEN Ok(Char(s[1]))
    ELSE ParseErr("ParseKeyError")

\* Key::need_angle_bracket
need_angle_bracket(key) == key.kind # "Char"

\* impl Display for Input
InputToString(i) ==
    (IF need_angle_bracket(i.key) THEN <<LT>> ELSE <<>>)
    \o (IF i.ctrl THEN CtrlPrefix ELSE <<>>)
    \o (IF i.alt THEN AltPrefix ELSE <<>>)
    \o KeyToString(i.key)
    \o (IF need_angle_bracket(i.key) THEN <<GT>> ELSE <<>>)

\* the loop of Input::from_str: the modifiers stripped off the front of s
RECURSIVE Modifiers(_, _, _)
Modifiers(s, ctrl, alt) ==
    IF StartsWith(s, 1, CtrlPrefix) THEN Modifiers(SubSeq(s, 3, Len(s)), TRUE, alt)
    ELSE IF StartsWith(s, 1, AltPrefix) THEN Modifiers(SubSeq(s, 3, Len(s)), ctrl, TRUE)
    ELSE [s |-> s, ctrl |-> ctrl, alt |-> alt]

\* Input::from_str after the brackets are taken off
InputOf(m, has_bracket) ==
    IF ~KeyFromStr(m.s).ok THEN ParseErr("InvalidKey")
    ELSE IF has_bracket # need_angle_bracket(KeyFromStr(m.s).value)
    THEN ParseErr(IF has_bracket THEN "UnneededAngleBracket" ELSE "NoAngleBracket")
    ELSE Ok([key |-> KeyFromStr(m.s).value, ctrl |-> m.ctrl, alt |-> m.alt])

\* Faulty variant of InputFromStr: a string that starts with < has brackets
InputFromStrBracketByStart(s) ==
    IF s # <<>> /\ s[1] = LT
    THEN InputOf(Modifiers(SubSeq(s, 2, Len(s) - 1), FALSE, FALSE), TRUE)
    ELSE InputOf(Modifiers(s, FALSE, FALSE), FALSE)

\* impl FromStr for Input
InputFromStr(s) ==
    IF s # <<>> /\ s[1] = LT /\ s[Len(s)] = GT
    THEN InputOf(Modifiers(SubSeq(s, 2, Len(s) - 1), FALSE, FALSE), TRUE)
    ELSE InputOf(Modifiers(s, FALSE, FALSE), FALSE)

\* the keys converted: the named keys, and the characters a < > C M - space
\* and U+00E9
ConvChars == {97, LT, GT, 67, 77, 45, 32, 233}
ConvKeys == {Char(c) : c \in ConvChars} \cup {Named(KeyNames[n][1]) : n \in 1 .. Len(KeyNames)}
ConvInputs == {[key |-> k, ctrl |-> c, alt |-> a] : k \in ConvKeys, c \in BOOLEAN, a \in BOOLEAN}

\* a Key or an Input, before key.to_string() and from_str of the string
InitConv ==
    /\ \/ \E k \in ConvKeys : conv = [api |-> "Key", value |-> k, stage |-> "new"]
       \/ \E i \in ConvInputs : conv = [api |-> "Input", value |-> i, stage |-> "new"]
    /\ keymap = NoKeyMap
    /\ editor = NoEditor /\ buffer = NoBuffer /\ find = NoFind /\ hist = NoHist
    /\ DecoderIdle /\ RowIdle /\ RenderIdle

ConvFrame == UNCHANGED <<keymap, editor, buffer, find, hist, render, rowVars, decVars>>

KeyToStringCall ==
    /\ conv.api = "Key" /\ conv.stage = "new"
    /\ conv' = [api |-> "Key", value |-> conv.value, stage |-> "string",
                string |-> KeyToString(conv.value)]
    /\ ConvFrame

KeyFromStrCall ==
    /\ conv.api = "Key" /\ conv.stage = "string"
    /\ conv' = [api |-> "Key", value |-> conv.value, stage |-> "parsed",
                string |-> conv.string, parsed |-> KeyFromStr(conv.string)]
    /\ ConvFrame

InputToStringCall ==
    /\ conv.api = "Input" /\ conv.stage = "new"
    /\ conv' = [api |-> "Input", value |-> conv.value, stage |-> "string",
                string |-> InputToString(conv.value)]
    /\ ConvFrame

InputFromStrCall ==
    /\ conv.api = "Input" /\ conv.stage = "string"
    /\ conv' = [api |-> "Input", value |-> conv.value, stage |-> "parsed",
                string |-> conv.string, parsed |-> InputFromStr(conv.string)]
    /\ ConvFrame

NextConv ==
    \/ KeyToStringCall
    \/ KeyFromStrCall
    \/ InputToStringCall
    \/ InputFromStrCall

SpecConv == InitConv /\ [][NextConv]_vars

Converted == conv # NoConv /\ conv.stage = "parsed"

\* the string has < in front and > at the end
InBrackets(s) == Len(s) >= 2 /\ s[1] = LT /\ s[Len(s)] = GT

\* the string of an input is written as the claim says
InputFormat(i, s) ==
    /\ InBrackets(s) <=> i.key.kind # "Char"
    /\ i.ctrl => StartsWith(s, IF InBrackets(s) THEN 2 ELSE 1, CtrlPrefix)
    /\ i.alt => StartsWith(s, (IF InBrackets(s) THEN 2 ELSE 1) + (IF i.ctrl THEN 2 ELSE 0), AltPrefix)
    /\ Len(s) = (IF InBrackets(s) THEN 2 ELSE 0) + (IF i.ctrl THEN 2 ELSE 0)
                + (IF i.alt THEN 2 ELSE 0) + Len(KeyToString(i.key))

\* C25: Key::from_str(k.to_string()) is k for every key k, and
\* Input::from_str(i.to_string()) is i for every input i with any of ctrl and
\* alt; the string of an input has a named key inside angle brackets, a
\* character key without them, and the modifiers as C- before M-.
C25_DisplayFromStrRoundTrip ==
    Converted =>
        /\ conv.parsed = Ok(conv.value)
        /\ conv.api = "Input" => InputFormat(conv.value, conv.string)

\* <C-M-page up> comes back as PageUp with ctrl and alt
C25_Witness ==
    /\ Converted
    /\ conv.api = "Input"
    /\ conv.string = <<LT>> \o CtrlPrefix \o AltPrefix \o <<112, 97, 103, 101, 32, 117, 112>> \o <<GT>>
    /\ conv.parsed = Ok([key |-> Named("PageUp"), ctrl |-> TRUE, alt |-> TRUE])

\* the character key < with alt: M-< comes back without brackets
C25_WitnessBracketChar ==
    /\ Converted
    /\ conv.api = "Input"
    /\ conv.value = [key |-> Char(LT), ctrl |-> FALSE, alt |-> TRUE]
    /\ conv.parsed = Ok(conv.value)

----------------------------------------------------------------------------
(* The pushback slot of the decoders *)

\* read_char with the character c pending returns c, empties the slot and
\* reads no byte
ReturnsPending(d, c) ==
    ReadChar(input, [d EXCEPT !.unread_char = c]) =
        CharSome([d EXCEPT !.unread_char = NoChar], c, d.pos)

\* C26: over every byte stream and every sequence of read_input calls on a
\* Decoder, set_unread_char is never called while a character is pending, so
\* its assertion never fails and the slot holds at most one character; a
\* pending character is what the next read_char returns, with no byte read.
C26_PushbackSlotHoldsOne ==
    impl # "none" =>
        /\ \A n \in 1 .. Len(events) : events[n].tag # "Panic"
        /\ dec.unread_char # NoChar => ReturnsPending(dec, dec.unread_char)
        /\ \A c \in {ESC, LBRACKET, 97, 233} : ReturnsPending(dec, c)

\* ESC ESC a read by async_decode: the first call pushes ESC back, reads it
\* again, pushes a back and returns Ctrl+Alt+[ with a pending; the second call
\* returns a
C26_Witness ==
    /\ impl = "async_decode"
    /\ input = <<ESC, ESC, 97>>
    /\ events = <<Some([key |-> Char(LBRACKET), ctrl |-> TRUE, alt |-> TRUE]),
                  Some(InputNew(Char(97)))>>
    /\ dec.unread_char = NoChar

\* the same bytes after the first call: a is pending between the calls
C26_WitnessPending ==
    /\ impl = "async_decode"
    /\ Len(events) = 1
    /\ dec.unread_char = 97

----------------------------------------------------------------------------
(* SyntaxState::update of one row at a time, in any order, between edits    *)

\* the lines of the file:  /*    */    U+00E9
UpdateFile == <<<<47, 42>>, <<42, 47>>, <<233>>>>

InitUpdate ==
    /\ buffer = FromFile(UpdateFile, "c", Size(8, 3))
    /\ find = NoFind
    /\ hist = [edits |-> 0, budget |-> MaxEdits, calls |-> <<>>]
    /\ DecoderIdle /\ RowIdle /\ RenderIdle /\ EditorIdle

\* rows.get3_mut(cy) and row.update_highlight(syntax, prev, next) for a row cy
UpdateRowCall ==
    /\ Live
    /\ \E cy \in 0 .. Len(buffer.rows) - 1 :
           /\ buffer' = [buffer EXCEPT !.rows = UpdateRow(@, SyntaxOf(buffer.syntax), cy)]
           /\ hist' = [hist EXCEPT !.calls = <<[op |-> "update", cy |-> cy, before |-> buffer.rows]>>]
    /\ UNCHANGED <<find, render, rowVars, decVars, editor, libVars>>

\* Row::insert_char on a row of the buffer
EditRowCall ==
    /\ CanEdit
    /\ \E y \in 1 .. Len(buffer.rows), ch \in TypedChars :
           \E at \in Boundaries(buffer.rows[y].chars) :
               buffer' = [buffer EXCEPT !.rows[y] = RowInsertChar(@, at, ch)]
    /\ hist' = Edited(hist)
    /\ UNCHANGED <<find, render, rowVars, decVars, editor, libVars>>

NextUpdate ==
    \/ EditRowCall
    \/ UpdateRowCall

SpecUpdate == InitUpdate /\ [][NextUpdate]_vars

RowUpdated == Live /\ hist.calls # <<>> /\ hist.calls[1].op = "update"

\* the row at index y (from 0) before and after the last update, and the index
\* of the row updated
Was(y) == hist.calls[1].before[y + 1]
Now(y) == buffer.rows[y + 1]
At == hist.calls[1].cy

\* the terminal open value of the row updated is not the one cached before
OpenChanged == Now(At).syntax_state.open # Was(At).syntax_state.open

\* C27: SyntaxState::update of row i changes nothing when row i is updated;
\* otherwise it changes only the tags, open value and updated flag of row i,
\* and marks row i+1 not-updated if and only if the new open value of row i
\* differs from the one cached before; row i-1, the tags and open value of
\* row i+1, and the rows after i+1 are as they were.
C27_UpdateTouchesRowAndNextFlag ==
    RowUpdated =>
        IF Was(At).syntax_state.updated THEN buffer.rows = hist.calls[1].before
        ELSE /\ Len(buffer.rows) = Len(hist.calls[1].before)
             /\ \A y \in 0 .. Len(buffer.rows) - 1 : y \notin {At, At + 1} => Now(y) = Was(y)
             /\ Now(At).chars = Was(At).chars
             /\ Now(At).syntax_state.updated
             /\ At + 1 < Len(buffer.rows) =>
                    /\ Now(At + 1).chars = Was(At + 1).chars
                    /\ Now(At + 1).syntax_state.highlight = Was(At + 1).syntax_state.highlight
                    /\ Now(At + 1).syntax_state.open = Was(At + 1).syntax_state.open
                    /\ Now(At + 1).syntax_state.updated =
                           IF OpenChanged THEN FALSE ELSE Was(At + 1).syntax_state.updated

\* row 1 was updated while row 0 was not (open None), then row 0: it ends in
\* an open comment, and row 1 is marked not-updated with its tags kept
C27_Witness ==
    /\ RowUpdated
    /\ At = 0
    /\ OpenChanged
    /\ Was(1).syntax_state.updated
    /\ ~Now(1).syntax_state.updated
    /\ Now(1).syntax_state.highlight = <<Normal, Normal>>

\* a row lexed to the open value it had cached: the updated next row stays updated
C27_WitnessNoChange ==
    /\ RowUpdated
    /\ ~Was(At).syntax_state.updated
    /\ ~OpenChanged
    /\ At + 1 < Len(buffer.rows)
    /\ Now(At + 1).syntax_state.updated

----------------------------------------------------------------------------
(* The lexer on two rows: a file of one or two lines, loaded and            *)
(* highlighted once                                                         *)

\* the second lines of the files: U+00E9 " / / and * / " \
LexNextLines == {<<233, 34, 47, 47>>, <<42, 47, 34, 92>>}

\* lines with numbers and keywords: 1// if" "if" /*1*/ '"'1
LexCodeLines ==
    {<<49, 47, 47>>, <<105, 102, 34>>, <<34, 105, 102, 34>>,
     <<47, 42, 49, 42, 47>>, <<39, 34, 39, 49>>}

LexFiles ==
    {<<line>> : line \in LexLines \cup LexCodeLines} \cup (LexLines \X LexNextLines)

InitLexRows ==
    /\ \E lines \in LexFiles : buffer = FromFile(lines, "c", Size(8, 2))
    /\ find = NoFind
    /\ hist = NoHist
    /\ DecoderIdle /\ RowIdle /\ RenderIdle /\ EditorIdle

NextLexRows == UpdateHighlightCall

SpecLexRows == InitLexRows /\ [][NextLexRows]_vars

\* the tag of the n characters at the head of a region, before the rest
Marked(tag, n, rest) == [tags |-> Repeat(tag, n) \o rest.tags, in |-> rest.in]

\* the regions of the text s from character i on, read character by
\* character in the region `in` ("" for code, "*/" inside a comment, the quote
\* inside a string): one of String, MultiLineComment, SingleLineComment and
\* "Code" for each character, and the region the text ends in
RECURSIVE Regions(_, _, _)
Regions(s, i, in) ==
    IF i > Len(s) THEN [tags |-> <<>>, in |-> in]
    ELSE IF in = <<>>
    THEN IF StartsWith(s, i, <<47, 47>>)
         THEN [tags |-> Repeat(SingleLineComment, Len(s) - i + 1), in |-> <<>>]
         ELSE IF StartsWith(s, i, <<47, 42>>)
         THEN Marked(MultiLineComment, 2, Regions(s, i + 2, <<42, 47>>))
         ELSE IF s[i] \in {34, 39}
         THEN Marked(String, 1, Regions(s, i + 1, <<s[i]>>))
         ELSE Marked("Code", 1, Regions(s, i + 1, in))
    ELSE IF in = <<42, 47>>
    THEN IF StartsWith(s, i, in)
         THEN Marked(MultiLineComment, 2, Regions(s, i + 2, <<>>))
         ELSE Marked(MultiLineComment, 1, Regions(s, i + 1, in))
    ELSE IF s[i] = 92 /\ i < Len(s)
    THEN Marked(String, 2, Regions(s, i + 2, in))
    ELSE IF s[i] = in[1]
    THEN Marked(String, 1, Regions(s, i + 1, <<>>))
    ELSE Marked(String, 1, Regions(s, i + 1, in))

\* the open state of a row that ends in the region `in`
OpenOf(in) ==
    IF in = <<>> THEN OpenNone
    ELSE IF in = <<42, 47>> THEN OpenComment(in)
    ELSE OpenString(in)

\* the region a tag stands for
RegionOf(hl) ==
    IF hl \in {String, MultiLineComment, SingleLineComment} THEN hl ELSE "Code"

\* the region the row y + 1 starts in: that in which the rows before it end
RECURSIVE RegionBefore(_, _)
RegionBefore(texts, y) ==
    IF y = 0 THEN <<>>
    ELSE Regions(texts[y], 1, RegionBefore(texts, y - 1)).in

\* the pass has lexed the rows of the file
LexedRows ==
    /\ Live
    /\ hist.calls # <<>>
    /\ \A y \in 1 .. Len(buffer.rows) : buffer.rows[y].syntax_state.updated

\* row y + 1 carries the tags and the open state of its regions
TaggedByRegion(y) ==
    /\ Len(buffer.rows[y + 1].syntax_state.highlight) = StrLen(buffer.rows[y + 1].chars)
    /\ \A i \in 1 .. Len(buffer.rows[y + 1].chars) :
           \A t \in ByteIdx(buffer.rows[y + 1].chars, i) + 1
                    .. ByteIdx(buffer.rows[y + 1].chars, i + 1) :
               RegionOf(buffer.rows[y + 1].syntax_state.highlight[t]) =
                   Regions(buffer.rows[y + 1].chars, 1,
                           RegionBefore(Texts(buffer), y)).tags[i]
    /\ buffer.rows[y + 1].syntax_state.open =
           OpenOf(Regions(buffer.rows[y + 1].chars, 1, RegionBefore(Texts(buffer), y)).in)

\* C28: the lexer honours the precedence at every position of every lexed row:
\* inside a string everything through the closing delimiter is tagged String,
\* inside a multi-line comment everything through the end marker is tagged
\* MultiLineComment, and outside both // wins over /*, which wins over a
\* string start, which wins over numbers, keywords and plain characters.
C28_PrecedenceAtEveryPosition ==
    LexedRows => \A y \in 0 .. Len(buffer.rows) - 1 : TaggedByRegion(y)

\* the row "/*" : the comment marker inside the string is part of the string
C28_Witness ==
    /\ LexedRows
    /\ TheRow.chars = <<34, 47, 42, 34>>
    /\ TheRow.syntax_state.highlight = Repeat(String, 4)
    /\ TheRow.syntax_state.open = OpenNone

\* the row '"'1 : the double quote is part of the string that ' opens, and
\* the number follows the string
C28_WitnessNumber ==
    /\ LexedRows
    /\ TheRow.chars = <<39, 34, 39, 49>>
    /\ TheRow.syntax_state.highlight = <<String, String, String, Number>>

\* the row /*"/ before */"\ : the quote and the / inside the comment are
\* part of it, and the second row closes the comment and opens a string
C28_WitnessInComment ==
    /\ LexedRows
    /\ Texts(buffer) = <<<<47, 42, 34, 47>>, <<42, 47, 34, 92>>>>
    /\ TheRow.syntax_state.highlight = Repeat(MultiLineComment, 4)
    /\ buffer.rows[2].syntax_state.highlight =
           <<MultiLineComment, MultiLineComment, String, String>>
    /\ buffer.rows[2].syntax_state.open = OpenString(<<34>>)

----------------------------------------------------------------------------
(* Strings and the backslash, on the rows of SpecLexRows                    *)

\* character j of s, inside a string that starts at character `from`, follows
\* a backslash that is not itself escaped
RECURSIVE EscapedAt(_, _, _)
EscapedAt(s, j, from) ==
    j > from /\ s[j - 1] = 92 /\ ~EscapedAt(s, j - 1, from)

\* the delimiters q from character `from` on that no backslash escapes
Closers(s, from, q) ==
    {j \in from .. Len(s) : s[j] = q /\ ~EscapedAt(s, j, from)}

\* the first of them
FirstCloser(s, from, q) ==
    CHOOSE j \in Closers(s, from, q) : \A k \in Closers(s, from, q) : j <= k

\* the open state of the row before row y + 1, None for the first row
OpenBefore(y) ==
    IF y = 0 THEN OpenNone ELSE buffer.rows[y].syntax_state.open

\* the bytes of row y + 1 from character `from` to the end are tagged String
\* and the row ends inside the string of q
StringToEndOfRow(y, from, q) ==
    /\ \A t \in ByteIdx(buffer.rows[y + 1].chars, from) + 1
                .. StrLen(buffer.rows[y + 1].chars) :
           buffer.rows[y + 1].syntax_state.highlight[t] = String
    /\ buffer.rows[y + 1].syntax_state.open = OpenString(<<q>>)

\* the bytes of row y + 1 from character `from` through character c are tagged
\* String, and the rest of the row is lexed as text outside a string is
StringClosedAt(y, from, c) ==
    /\ \A t \in ByteIdx(buffer.rows[y + 1].chars, from) + 1
                .. ByteIdx(buffer.rows[y + 1].chars, c + 1) :
           buffer.rows[y + 1].syntax_state.highlight[t] = String
    /\ SubSeq(buffer.rows[y + 1].syntax_state.highlight,
              ByteIdx(buffer.rows[y + 1].chars, c + 1) + 1,
              StrLen(buffer.rows[y + 1].chars)) =
           LexLoop(SyntaxOf(buffer.syntax),
                   SubSeq(buffer.rows[y + 1].chars, c + 1, Len(buffer.rows[y + 1].chars)),
                   1, TRUE, OpenNone, <<>>).highlight
    /\ buffer.rows[y + 1].syntax_state.open =
           LexLoop(SyntaxOf(buffer.syntax),
                   SubSeq(buffer.rows[y + 1].chars, c + 1, Len(buffer.rows[y + 1].chars)),
                   1, TRUE, OpenNone, <<>>).open

\* the string of q that is open at character `from` of row y + 1 closes at
\* its first unescaped delimiter, or runs to the end of the row
StringFrom(y, from, q) ==
    IF Closers(buffer.rows[y + 1].chars, from, q) = {}
    THEN StringToEndOfRow(y, from, q)
    ELSE StringClosedAt(y, from, FirstCloser(buffer.rows[y + 1].chars, from, q))

\* row y + 1 starts with a quote and is lexed from the open state None
OpensString(y) ==
    /\ OpenBefore(y) = OpenNone
    /\ buffer.rows[y + 1].chars # <<>>
    /\ buffer.rows[y + 1].chars[1] \in {34, 39}

\* C29: a string that a row opens at its first character, or that the row
\* before left open, closes at the first delimiter that no backslash escapes
\* (a backslash escapes the character after it, a second backslash included);
\* a row without such a delimiter is String to its end and ends in the open
\* state String of that delimiter, from which the next row is lexed.
C29_StringClosesAtFirstUnescaped ==
    LexedRows =>
        \A y \in 0 .. Len(buffer.rows) - 1 :
            /\ OpenBefore(y).kind = "String" =>
                   StringFrom(y, 1, OpenBefore(y).end[1])
            /\ OpensString(y) =>
                   /\ buffer.rows[y + 1].syntax_state.highlight[1] = String
                   /\ StringFrom(y, 2, buffer.rows[y + 1].chars[1])

\* the row "\\" : the escaped backslash does not escape the closing quote
C29_Witness ==
    /\ LexedRows
    /\ TheRow.chars = <<34, 92, 92, 34>>
    /\ TheRow.syntax_state.highlight = Repeat(String, 4)
    /\ TheRow.syntax_state.open = OpenNone

\* the row "\"\ before U+00E9 "// : the escaped quote does not close the
\* string, the row ends inside it and the next row closes it
C29_WitnessNextRow ==
    /\ LexedRows
    /\ Texts(buffer) = <<<<34, 92, 34, 92>>, <<233, 34, 47, 47>>>>
    /\ TheRow.syntax_state.highlight = Repeat(String, 4)
    /\ TheRow.syntax_state.open = OpenString(<<34>>)
    /\ buffer.rows[2].syntax_state.highlight =
           <<String, String, String, SingleLineComment, SingleLineComment>>
    /\ buffer.rows[2].syntax_state.open = OpenNone

----------------------------------------------------------------------------
(* Keywords: a file of one line of letters, digits, separators and quotes,  *)
(* loaded and highlighted once                                              *)

\* i f n t, the space, " . and 1
KeywordAlphabet == {105, 102, 110, 116, 32, 34, 46, 49}

\* the lines of the files: every text up to MaxLexLen, and unsigned, (if) and
\* // if
KeywordLines ==
    SeqsUpTo(KeywordAlphabet, MaxLexLen) \cup
        {<<117, 110, 115, 105, 103, 110, 101, 100>>, <<40, 105, 102, 41>>,
         <<47, 47, 32, 105, 102>>}

InitKeywords ==
    /\ \E line \in KeywordLines : buffer = FromFile(<<line>>, "c", Size(8, 1))
    /\ find = NoFind
    /\ hist = NoHist
    /\ DecoderIdle /\ RowIdle /\ RenderIdle /\ EditorIdle

NextKeywords == UpdateHighlightCall

SpecKeywords == InitKeywords /\ [][NextKeywords]_vars

\* the words of a keyword list
Words(kws) == {kws[k] : k \in 1 .. Len(kws)}

\* the places of the row where a word of the keyword lists stands
Occurrences ==
    {o \in (1 .. Len(TheRow.chars)) \X
           (Words(SyntaxOf(buffer.syntax).keyword1) \cup Words(SyntaxOf(buffer.syntax).keyword2)) :
        StartsWith(TheRow.chars, o[1], o[2])}

\* the tag of character j of the row (that of its first byte)
TagAt(j) == TheRow.syntax_state.highlight[ByteIdx(TheRow.chars, j) + 1]

\* every byte of the word at o carries the tag
Tagged(o, tag) ==
    \A t \in ByteIdx(TheRow.chars, o[1]) + 1 .. ByteIdx(TheRow.chars, o[1] + Len(o[2])) :
        TheRow.syntax_state.highlight[t] = tag

\* the tag of the list of the word, keyword1 first
ListTag(o) ==
    IF o[2] \in Words(SyntaxOf(buffer.syntax).keyword1) THEN Keyword1 ELSE Keyword2

\* the word at o stands at the start of the row or after a separator character
AfterSeparator(o) ==
    IF o[1] = 1 THEN TRUE ELSE is_separator(TheRow.chars[o[1] - 1])

\* the word at o is followed by a separator character or by the end of the row
BeforeSeparator(o) ==
    IF o[1] + Len(o[2]) > Len(TheRow.chars) THEN TRUE
    ELSE is_separator(TheRow.chars[o[1] + Len(o[2])])

\* the word at o stands outside strings and comments
InCode(o) ==
    \A j \in o[1] .. o[1] + Len(o[2]) - 1 : Regions(TheRow.chars, 1, <<>>).tags[j] = "Code"

\* the word at o is part of a longer word of the lists (signed in unsigned)
InsideLonger(o) ==
    \E p \in Occurrences :
        /\ Len(p[2]) > Len(o[2])
        /\ p[1] <= o[1]
        /\ o[1] + Len(o[2]) <= p[1] + Len(p[2])

\* the word at o stands at the start of the row, after a string or a comment,
\* or after a separator character that is not the dot of a number
AfterSeparatorOrLiteral(o) ==
    IF o[1] = 1 THEN TRUE
    ELSE IF TagAt(o[1] - 1) \in {String, MultiLineComment} THEN TRUE
    ELSE is_separator(TheRow.chars[o[1] - 1]) /\ TagAt(o[1] - 1) = Normal

\* C30 as stated: a word of the keyword lists is tagged Keyword1 or Keyword2
\* only at the start of the row or after a separator character, and followed
\* by a separator character or the end of the row; it then carries the tag of
\* its list, keyword1 first; in every other case it is tagged Normal.
C30_KeywordOnlyAfterSeparatorCharacter ==
    Lexed =>
        \A o \in Occurrences :
            /\ (Tagged(o, Keyword1) \/ Tagged(o, Keyword2)) =>
                   AfterSeparator(o) /\ BeforeSeparator(o) /\ Tagged(o, ListTag(o))
            /\ ~(AfterSeparator(o) /\ BeforeSeparator(o)) => Tagged(o, Normal)

\* C30, amended: outside strings and comments, a word of the keyword lists
\* that is not part of a longer one carries the tag of its list (keyword1
\* first) when it stands at the start of the row, after a string or a comment,
\* or after a separator character that is not part of a number, and is
\* followed by a separator character or the end of the row; otherwise it is
\* tagged Normal.
C30_KeywordAfterSeparatorOrLiteral ==
    Lexed =>
        \A o \in Occurrences :
            (InCode(o) /\ ~InsideLonger(o)) =>
                IF AfterSeparatorOrLiteral(o) /\ BeforeSeparator(o)
                THEN Tagged(o, ListTag(o))
                ELSE Tagged(o, Normal)

\* the row " if " : the keyword between two spaces
C30_Witness ==
    /\ Lexed
    /\ TheRow.chars = <<32, 105, 102, 32>>
    /\ TheRow.syntax_state.highlight = <<Normal, Keyword1, Keyword1, Normal>>

\* the row ""if : the keyword right after the closing quote
C30_WitnessAfterString ==
    /\ Lexed
    /\ TheRow.chars = <<34, 34, 105, 102>>
    /\ TheRow.syntax_state.highlight = <<String, String, Keyword1, Keyword1>>

\* the row 1.if : the dot belongs to the number and if is plain text
C30_WitnessAfterNumber ==
    /\ Lexed
    /\ TheRow.chars = <<49, 46, 105, 102>>
    /\ TheRow.syntax_state.highlight = <<Number, Number, Normal, Normal>>

\* the rows int and intn : a word of keyword2, and the same word before a letter
C30_WitnessKeyword2 ==
    /\ Lexed
    /\ TheRow.chars = <<105, 110, 116>>
    /\ TheRow.syntax_state.highlight = Repeat(Keyword2, 3)

C30_WitnessBeforeLetter ==
    /\ Lexed
    /\ TheRow.chars = <<105, 110, 116, 110>>
    /\ TheRow.syntax_state.highlight = Repeat(Normal, 4)

----------------------------------------------------------------------------
(* Search steps for a query that occurs nowhere                             *)

\* the query of the session occurs in no row
OccursNowhere ==
    \A p \in Places(buffer) : ~Occurs(buffer, find.query, p[1], p[2], p[3])

\* the step is search_forward or search_backward
SearchStep ==
    \/ /\ buffer' = FindSearchForward(St(buffer, find)).b
       /\ find' = FindSearchForward(St(buffer, find)).f
    \/ /\ buffer' = FindSearchBackward(St(buffer, find)).b
       /\ find' = FindSearchBackward(St(buffer, find)).f

\* the step neither panics nor changes the cursor, the last match or the tags
\* of a row
NothingFound ==
    /\ ~buffer'.panic
    /\ buffer'.c = buffer.c
    /\ find'.last_match = find.last_match
    /\ find'.saved_highlight = find.saved_highlight
    /\ Len(buffer'.rows) = Len(buffer.rows)
    /\ \A y \in 1 .. Len(buffer.rows) :
           /\ buffer'.rows[y].syntax_state.highlight = buffer.rows[y].syntax_state.highlight
           /\ buffer'.rows[y].syntax_state.overlay = buffer.rows[y].syntax_state.overlay

\* C31: a search step, forward or backward, for a query that occurs nowhere in
\* the buffer ends and leaves the cursor, the last match and the tags of every
\* row as they were.
C31_AbsentQueryChangesNothing ==
    [][(IF Finding THEN OccursNowhere ELSE FALSE) /\ SearchStep => NothingFound]_vars

\* the same for the steps that start in a buffer with rows
C31_HoldsInBuffersWithRows ==
    [][(IF Finding /\ buffer.rows # <<>> THEN OccursNowhere ELSE FALSE) /\ SearchStep
           => NothingFound]_vars

----------------------------------------------------------------------------
(* Search steps from a current match                                        *)

Least(S) == CHOOSE x \in S : \A y \in S : x <= y
Greatest(S) == CHOOSE x \in S : \A y \in S : x >= y

\* the byte offsets at which the query of the session occurs in row y
OccursIn(y) ==
    {s \in 0 .. RowLen(buffer, y) : Occurs(buffer, find.query, y, s, s + StrLen(find.query))}

\* the match that starts at byte s of row y
MatchAt(y, s) == <<y, s, s + StrLen(find.query)>>

\* the row d rows before / after row r, going from row 0 to the last row and
\* back
RowBefore(r, d) == (r + Len(buffer.rows) - d) % Len(buffer.rows)
RowAfter(r, d) == (r + d) % Len(buffer.rows)

\* the distances of the other rows that hold an occurrence, going backward
\* and going forward
BackwardRows(r) == {d \in 1 .. Len(buffer.rows) - 1 : OccursIn(RowBefore(r, d)) # {}}
ForwardRows(r) == {d \in 1 .. Len(buffer.rows) - 1 : OccursIn(RowAfter(r, d)) # {}}

\* the match a backward step from the match m is to select: <<>> when the
\* occurrences lie in row m[1] only, at or after the start of m
BackwardTarget(m) ==
    IF {s \in OccursIn(m[1]) : s + StrLen(find.query) <= m[2]} # {}
    THEN <<MatchAt(m[1], Greatest({s \in OccursIn(m[1]) : s + StrLen(find.query) <= m[2]}))>>
    ELSE IF BackwardRows(m[1]) # {}
    THEN <<MatchAt(RowBefore(m[1], Least(BackwardRows(m[1]))),
                   Greatest(OccursIn(RowBefore(m[1], Least(BackwardRows(m[1]))))))>>
    ELSE <<>>

\* the match a forward step from the match m is to select
ForwardTarget(m) ==
    IF {s \in OccursIn(m[1]) : s >= m[3]} # {}
    THEN <<MatchAt(m[1], Least({s \in OccursIn(m[1]) : s >= m[3]}))>>
    ELSE IF ForwardRows(m[1]) # {}
    THEN <<MatchAt(RowAfter(m[1], Least(ForwardRows(m[1]))),
                   Least(OccursIn(RowAfter(m[1], Least(ForwardRows(m[1]))))))>>
    ELSE <<>>

\* the step is search_backward / search_forward
BackwardStep ==
    /\ buffer' = FindSearchBackward(St(buffer, find)).b
    /\ find' = FindSearchBackward(St(buffer, find)).f
ForwardStep ==
    /\ buffer' = FindSearchForward(St(buffer, find)).b
    /\ find' = FindSearchForward(St(buffer, find)).f

\* the step has selected the match: it is the last match and the cursor is
\* on its first byte
Selects(target) ==
    target # <<>> =>
        /\ ~buffer'.panic
        /\ find'.last_match = target[1]
        /\ buffer'.c = Point(target[1][2], target[1][1])

\* there is a current match
HasMatch == IF Finding THEN find.last_match # <<>> ELSE FALSE

\* C32: a backward step from a current match selects the last occurrence of
\* the query that lies wholly before the start of the match in its row, and
\* if there is none the last occurrence in the nearest row before it that has
\* one, going from row 0 to the last row; a forward step selects the first
\* occurrence that starts at or after the end of the match, and if there is
\* none the first occurrence in the nearest row after it that has one.
C32_StepSelectsNearestOccurrence ==
    [][/\ HasMatch /\ BackwardStep => Selects(BackwardTarget(find.last_match))
       /\ HasMatch /\ ForwardStep => Selects(ForwardTarget(find.last_match))]_vars

\* a backward step has gone from row 0 to an occurrence in the last row
C32_Witness ==
    /\ Finding /\ ~find.is_forward
    /\ find.query = <<98>>
    /\ Texts(buffer) = <<<<97, 98>>, <<233, 98>>>>
    /\ find.applied # <<>>
    /\ find.removed # <<>> /\ find.removed[1].idx = 0
    /\ find.last_match = <<1, 2, 3>>
    /\ buffer.c = Point(2, 1)

\* a forward step has gone from the last row to an occurrence in row 0
C32_WitnessForward ==
    /\ Finding /\ find.is_forward
    /\ find.query = <<98>>
    /\ Texts(buffer) = <<<<97, 98>>, <<233, 98>>>>
    /\ find.removed # <<>> /\ find.removed[1].idx = 1
    /\ find.last_match = <<0, 1, 2>>

----------------------------------------------------------------------------
(* Match tags during and after a search session                             *)

\* the rows (from 0) that are drawn with a Match tag
MatchRows ==
    {y \in 0 .. Len(buffer.rows) - 1 :
        \E t \in 1 .. Len(Shown(buffer.rows[y + 1].syntax_state)) :
            Shown(buffer.rows[y + 1].syntax_state)[t] = Match}

\* the rows (from 0) in the viewport
RenderedRows ==
    {y \in 0 .. Len(buffer.rows) - 1 :
        y >= buffer.origin.y /\ y < buffer.origin.y + buffer.size.rows}

\* the session is over and the screen has been drawn again
Closed == Live /\ find # NoFind /\ find.phase = "closed"

\* C33: during a search session at most one row carries Match tags, and once
\* the session has ended by Enter or Esc and the screen has been drawn again
\* no row carries a Match tag and the rows on the screen carry the tags of
\* the buffer lexed from row 0.
C33_MatchTagsComeAndGo ==
    /\ (Live /\ find # NoFind) => Cardinality(MatchRows) <= 1
    /\ Closed =>
           /\ MatchRows = {}
           /\ \A y \in RenderedRows :
                  Shown(buffer.rows[y + 1].syntax_state) = Relexed[y + 1].syntax_state.highlight

\* the same for the Find objects of text_buffer.rs and text_buffer_view.rs
C33_HoldsOfFindObjects ==
    (IF find # NoFind THEN find.api # "find" ELSE FALSE) => C33_MatchTagsComeAndGo

\* a session of a Find object that showed a match has ended and the matched
\* row is on the screen
C33_ReachedByFindObjects ==
    /\ Closed /\ find.api = "text_buffer"
    /\ find.removed # <<>>
    /\ find.removed[1].idx \in RenderedRows
    /\ find.removed[1].marked # find.removed[1].plain

----------------------------------------------------------------------------
(* The cursor under moves, edits and searches                               *)

\* the lines of the files: the empty file (as TextBuffer::new), and
\* U+00E9 TAB / (empty) / U+3042 a
CursorFiles == {<<>>, <<<<233, TAB>>, <<>>, <<12354, 97>>>>}

MaxCursorEdits == 1

InitCursor ==
    /\ \E lines \in CursorFiles : buffer = FromFile(lines, "no ft", Size(16, 2))
    /\ find = NoFind
    /\ hist = [edits |-> 0, budget |-> MaxCursorEdits, calls |-> <<>>]
    /\ DecoderIdle /\ RowIdle /\ RenderIdle /\ EditorIdle

\* PageUp / PageDown, keyed after a refresh_screen
PageMoveCall ==
    /\ Live /\ find = NoFind /\ scroll(buffer) = buffer
    /\ \E mv \in {"PageUp", "PageDown"} : buffer' = move_cursor(buffer, mv)
    /\ hist' = Forget(hist)
    /\ UNCHANGED <<find, render, rowVars, decVars, editor, libVars>>

\* Ctrl-G on a TextBuffer: TextBuffer::find_start
TextBufferFindStartCall ==
    /\ Live /\ find = NoFind /\ scroll(buffer) = buffer
    /\ find' = FindStart(buffer, "text_buffer")
    /\ UNCHANGED <<buffer, hist, render, rowVars, decVars, editor, libVars>>

\* the scroll of refresh_screen, in the editor's loop and in the prompt loop
RefreshScrollCall ==
    /\ Live /\ (IF find = NoFind THEN TRUE ELSE find.phase = "active")
    /\ buffer' = scroll(buffer)
    /\ UNCHANGED <<find, hist, render, rowVars, decVars, editor, libVars>>

\* Editor::insert_char, insert_newline, delete_char, delete_back_char
CursorEditCall ==
    /\ CanEdit
    /\ \/ \E ch \in TypedChars : buffer' = insert_char(buffer, ch)
       \/ buffer' = insert_newline(buffer)
       \/ buffer' = delete_char(buffer)
       \/ buffer' = delete_back_char(buffer)
    /\ hist' = Edited(hist)
    /\ UNCHANGED <<find, render, rowVars, decVars, editor, libVars>>

NextCursor ==
    \/ MoveCursorCall
    \/ PageMoveCall
    \/ RefreshScrollCall
    \/ CursorEditCall
    \/ TextBufferFindStartCall
    \/ FindInputCall
    \/ FindSearchForwardCall
    \/ FindSearchBackwardCall
    \/ FindExecuteCall
    \/ FindCancelCall

SpecCursor == InitCursor /\ [][NextCursor]_vars

\* C34: in every state that moves, edits and search steps reach from a new or
\* freshly loaded buffer, the cursor is in a row at a character boundary of
\* it, or one past the last row at offset 0.
C34_CursorInText ==
    Live =>
        /\ buffer.c.y <= Len(buffer.rows)
        /\ buffer.c.x >= 0
        /\ IF HasRow(buffer, buffer.c.y)
           THEN /\ buffer.c.x <= RowLen(buffer, buffer.c.y)
                /\ IsCharBoundary(buffer.rows[buffer.c.y + 1].chars, buffer.c.x)
           ELSE buffer.c.x = 0

\* the cursor has come down to the row U+3042 a and stands behind U+3042
C34_Witness ==
    /\ Live
    /\ Texts(buffer) = <<<<233, TAB>>, <<>>, <<12354, 97>>>>
    /\ buffer.c = Point(3, 2)

\* the cursor stands one past the last row of a buffer with rows
C34_WitnessPastLastRow ==
    /\ Live
    /\ buffer.rows # <<>>
    /\ buffer.c = Point(0, Len(buffer.rows))

\* a search has put the cursor on a match in an edited buffer
C34_WitnessSearch ==
    /\ Finding
    /\ hist.edits > 0
    /\ find.last_match # <<>>
    /\ find.query # <<>>
    /\ buffer.c = Point(find.last_match[2], find.last_match[1])

----------------------------------------------------------------------------
(* Deleting where there is nothing to delete                                *)

\* the last call of the session and the buffer it was made on
LastCall == hist.calls[Len(hist.calls)]
JustDeleted ==
    /\ buffer # NoBuffer
    /\ hist.calls # <<>>
    /\ LastCall.op \in {"delete_char", "delete_back_char"}

\* the buffer delete_char works on: delete_back_char has moved Left first
DeleteFrom == IF LastCall.op = "delete_char" THEN LastCall.before
              ELSE move_cursor(LastCall.before, "Left")

\* C35: delete_char and delete_back_char return in every reachable state, the
\* cursor one past the last row included
C35_DeletesComplete == JustDeleted => ~buffer.panic

\* where the cursor is in a row, the call returns; at the end of the last row
\* it changes neither the rows nor the dirty flag, and at the end of row N
\* with a row N+1 it appends the text of row N+1 to row N and removes row N+1
C35_HoldsInsideRows ==
    (JustDeleted /\ HasRow(DeleteFrom, DeleteFrom.c.y)) =>
        /\ ~buffer.panic
        /\ (DeleteFrom.c.x = RowLen(DeleteFrom, DeleteFrom.c.y)) =>
              IF HasRow(DeleteFrom, DeleteFrom.c.y + 1)
              THEN /\ Len(buffer.rows) = Len(DeleteFrom.rows) - 1
                   /\ \A y \in 1..Len(buffer.rows) :
                        Texts(buffer)[y] =
                            IF y < DeleteFrom.c.y + 1 THEN Texts(DeleteFrom)[y]
                            ELSE IF y = DeleteFrom.c.y + 1
                            THEN Texts(DeleteFrom)[y] \o Texts(DeleteFrom)[y + 1]
                            ELSE Texts(DeleteFrom)[y + 1]
                   /\ buffer.is_dirty
              ELSE /\ Texts(buffer) = Texts(DeleteFrom)
                   /\ buffer.is_dirty = DeleteFrom.is_dirty

\* a delete at the end of a row has merged the next row into it
C35_ReachedMerge ==
    /\ JustDeleted /\ HasRow(DeleteFrom, DeleteFrom.c.y + 1)
    /\ DeleteFrom.c.x = RowLen(DeleteFrom, DeleteFrom.c.y)
    /\ RowLen(DeleteFrom, DeleteFrom.c.y + 1) > 0

\* a delete at the end of the last row of a buffer that is not dirty
C35_ReachedNothingToDelete ==
    /\ JustDeleted /\ HasRow(DeleteFrom, DeleteFrom.c.y)
    /\ ~HasRow(DeleteFrom, DeleteFrom.c.y + 1)
    /\ DeleteFrom.c.x = RowLen(DeleteFrom, DeleteFrom.c.y)
    /\ ~DeleteFrom.is_dirty

\* in a buffer without rows both calls panic
C35_EmptyBufferDeletes ==
    (Live /\ buffer.rows = <<>>) =>
        delete_char(buffer).panic /\ delete_back_char(buffer).panic

----------------------------------------------------------------------------
(* A search from a cursor that is in no row                                 *)

\* C36: input, search_forward and search_backward return from every buffer
\* and cursor position, without an access outside the rows
C36_SearchCompletes == find # NoFind => ~buffer.panic

\* a search that starts with the cursor in a row, or follows a match, returns
C36_HoldsFromCursorInRow ==
    (find # NoFind /\ HasRow(buffer, find.saved_c.y)) => ~buffer.panic

\* a search has gone through the rows of a buffer and found a match
C36_ReachedFromCursorInRow ==
    /\ Finding /\ HasRow(buffer, find.saved_c.y)
    /\ find.query # <<>> /\ find.last_match # <<>>
    /\ find.last_match[1] # find.saved_c.y

\* the search of find.rs makes no pass over a buffer without rows
C36_FindRsInEmptyBuffer ==
    (find # NoFind /\ find.api = "find" /\ buffer.rows = <<>>) => ~buffer.panic

\* a search from one past the last row of a buffer with rows has panicked
C36_ReachedPastLastRow ==
    /\ find # NoFind /\ buffer.panic /\ buffer.rows # <<>>
    /\ find.saved_c = Point(0, Len(buffer.rows))

----------------------------------------------------------------------------
(* The columns of the items of a windowed render                            *)

\* the column item j of the output starts at and the one it ends before: an
\* item starts where its character does, a padding block for a character
\* that began left of the window at the window's start
SpanStart(j) == Max(Columns[render.out[j].k].col, SegRange(render.seg).start)
SpanEnd(j) == SpanStart(j) + render.out[j].width

RECURSIVE WidthSum(_, _)
WidthSum(out, n) == IF n = 0 THEN 0 ELSE WidthSum(out, n - 1) + out[n].width

\* C37: the items emitted so far occupy disjoint, increasing column spans
\* inside the window (a character of width 0 an empty one), and their widths
\* sum to no more than its size
C37_ItemsInsideWindow ==
    render.api # "none" =>
        /\ \A j \in 1 .. Len(render.out) :
              /\ SegRange(render.seg).start <= SpanStart(j)
              /\ SpanEnd(j) <= SegRange(render.seg).end
              /\ j > 1 => SpanEnd(j - 1) <= SpanStart(j)
        /\ WidthSum(render.out, Len(render.out)) <= render.seg.size

\* the same of render.rs alone
C37_HoldsOfStrRender == render.api = "render" => C37_ItemsInsideWindow

\* render.rs has emitted items up to a character that straddles the right
\* edge of the window, for which it emits nothing
C37_ReachedStrRender ==
    /\ render.api = "render" /\ render.done /\ render.out # <<>>
    /\ \E k \in 1 .. Len(row_chars) :
          /\ Columns[k].col < SegRange(render.seg).end
          /\ Columns[k].col + Columns[k].width > SegRange(render.seg).end

\* the same of row.rs where no character straddles both edges of the window
C37_HoldsOfRowsOneEdge ==
    (/\ render.api = "row"
     /\ \A k \in 1 .. Len(row_chars) :
           ~(/\ Columns[k].col < SegRange(render.seg).start
             /\ Columns[k].col + Columns[k].width > SegRange(render.seg).end))
    => C37_ItemsInsideWindow

----------------------------------------------------------------------------
(* The list of buffers: open, next, prev, close and quit                    *)

\* what input::prompt returns: Some(text), never empty because Enter is
\* ignored while nothing is typed, or None after Esc
Answered(text) == [some |-> TRUE, text |-> text]
Cancelled == [some |-> FALSE, text |-> <<>>]
NoAnswer == [some |-> FALSE, text |-> <<0>>]

\* y, Y, Yes, n, ny and " y"
PromptAnswers ==
    {Answered(<<121>>), Answered(<<89>>), Answered(<<89, 101, 115>>),
     Answered(<<110>>), Answered(<<110, 121>>), Answered(<<32, 121>>), Cancelled}

\* str::to_lowercase on the letters of an answer
to_lowercase(s) == [i \in 1 .. Len(s) |-> IF s[i] \in 65 .. 90 THEN s[i] + 32 ELSE s[i]]

\* Faulty variant of prompt_confirm: any text that was entered confirms
PromptConfirmAnyText(answer) == answer.some

\* input::prompt_confirm
prompt_confirm(answer) == answer.some /\ to_lowercase(answer.text)[1] = 121

\* Editor::scroll
EditorScroll(e) ==
    IF HasBuffer(e) THEN [e EXCEPT !.buffer_view[e.buffer_idx + 1].buffer = scroll(@)] ELSE e

\* the editor after prompt_with_callback has returned: every pass of its loop
\* sets the prompt as status message and refreshes the screen, Enter and Esc
\* clear the message
Prompted(e) == set_status_message(EditorScroll(e), "")

\* Editor::dirty
dirty(e) == \E i \in 1 .. Len(e.buffer_view) : e.buffer_view[i].buffer.is_dirty

\* the process after a panic, and after main has returned
PanickedEditor == [buffer_view |-> <<>>, panic |-> TRUE]
Running == editor # NoEditor /\ editor # PanickedEditor

\* Editor::prev_buffer
prev_buffer(e) ==
    IF e.buffer_view # <<>>
    THEN [e EXCEPT !.buffer_idx = IF @ = 0 THEN Len(e.buffer_view) - 1 ELSE @ - 1]
    ELSE e

\* the buffer list after self.buffer_view.remove(self.buffer_idx)
Removed(e) == [e EXCEPT !.buffer_view = VecRemove(@, e.buffer_idx)]

\* Faulty variant of close_buffer: buffer_idx is left as it was
CloseBufferKeepsIdx(e, answer) ==
    IF e.buffer_view = <<>> THEN e
    ELSE IF ~HasBuffer(e) THEN PanickedEditor
    ELSE IF Current(e).buffer.is_dirty /\ ~prompt_confirm(answer) THEN Prompted(e)
    ELSE Removed(IF Current(e).buffer.is_dirty THEN Prompted(e) ELSE e)

\* Editor::close_buffer, answer what the prompt returned; buffer().unwrap()
\* panics when buffer_idx is not an index of the list
close_buffer(e, answer) ==
    IF e.buffer_view = <<>> THEN e
    ELSE IF ~HasBuffer(e) THEN PanickedEditor
    ELSE IF Current(e).buffer.is_dirty /\ ~prompt_confirm(answer) THEN Prompted(e)
    ELSE LET removed == Removed(IF Current(e).buffer.is_dirty THEN Prompted(e) ELSE e)
         IN  IF removed.buffer_view # <<>>
             THEN [removed EXCEPT !.buffer_idx = @ % Len(removed.buffer_view)]
             ELSE removed

\* Editor::quit: what it returns, and the editor after it
quit(e, answer) ==
    [result |-> ~(dirty(e) /\ ~prompt_confirm(answer)),
     editor |-> IF dirty(e) THEN Prompted(e) ELSE e]

\* the number of buffers of a session
MaxOpen == 3

\* a command, the editor before it and the answer to its prompt
BufferCall(op, answer) == [op |-> op, before |-> editor, answer |-> answer]
LastIs(op) == hist.calls # <<>> /\ hist.calls[Len(hist.calls)].op = op

\* the answers a command can get: those of the prompt where it asks
AnswersIf(asks) == IF asks THEN PromptAnswers ELSE {NoAnswer}

\* Editor::open; the file is empty or cannot be opened
BufferOpenCall ==
    /\ Running
    /\ Len(editor.buffer_view) < MaxOpen
    /\ \E filename \in FileNames, res \in {OpenOk(<<>>), OpenErr("Could not open file")} :
           editor' = EditorOpen(editor, filename, res)
    /\ hist' = [hist EXCEPT !.calls = <<BufferCall("open", NoAnswer)>>]
    /\ UNCHANGED <<buffer, find, render, rowVars, decVars, libVars>>

\* Editor::insert_char
BufferInsertCharCall ==
    /\ Running
    /\ hist.edits < hist.budget
    /\ \E ch \in TypedChars : editor' = EditorInsertChar(editor, ch)
    /\ hist' = [Edited(hist) EXCEPT !.calls = <<BufferCall("insert_char", NoAnswer)>>]
    /\ UNCHANGED <<buffer, find, render, rowVars, decVars, libVars>>

\* C-X C-X: Editor::next_buffer
BufferNextCall ==
    /\ Running
    /\ editor' = next_buffer(editor)
    /\ hist' = [hist EXCEPT !.calls = <<BufferCall("next_buffer", NoAnswer)>>]
    /\ UNCHANGED <<buffer, find, render, rowVars, decVars, libVars>>

\* Editor::prev_buffer; the session remembers a next_buffer right before it
BufferPrevCall ==
    /\ Running
    /\ editor' = prev_buffer(editor)
    /\ hist' = [hist EXCEPT !.calls =
                    IF LastIs("next_buffer")
                    THEN <<hist.calls[Len(hist.calls)], BufferCall("prev_buffer", NoAnswer)>>
                    ELSE <<BufferCall("prev_buffer", NoAnswer)>>]
    /\ UNCHANGED <<buffer, find, render, rowVars, decVars, libVars>>

\* C-X C-C: Editor::close_buffer
BufferCloseCall ==
    /\ Running
    /\ \E answer \in AnswersIf(HasBuffer(editor) /\ Current(editor).buffer.is_dirty) :
           /\ editor' = close_buffer(editor, answer)
           /\ hist' = [hist EXCEPT !.calls = <<BufferCall("close_buffer", answer)>>]
    /\ UNCHANGED <<buffer, find, render, rowVars, decVars, libVars>>

\* C-Q: Editor::quit; process_keypress returns true and main ends the loop
BufferQuitCall ==
    /\ Running
    /\ \E answer \in AnswersIf(dirty(editor)) :
           /\ editor' = IF quit(editor, answer).result THEN NoEditor
                        ELSE quit(editor, answer).editor
           /\ hist' = [hist EXCEPT !.calls = <<BufferCall("quit", answer)>>]
    /\ UNCHANGED <<buffer, find, render, rowVars, decVars, libVars>>

InitBuffers ==
    /\ editor = EditorNew(Size(8, 2)) /\ LibIdle
    /\ buffer = NoBuffer /\ find = NoFind
    /\ hist = [edits |-> 0, budget |-> MaxEdits, calls |-> <<>>]
    /\ DecoderIdle /\ RowIdle /\ RenderIdle

NextBuffers ==
    \/ BufferOpenCall
    \/ BufferInsertCharCall
    \/ BufferNextCall
    \/ BufferPrevCall
    \/ BufferCloseCall
    \/ BufferQuitCall

SpecBuffers == InitBuffers /\ [][NextBuffers]_vars

\* C38: while the editor runs, buffer_idx is an index of the list of buffers,
\* or 0 while the list is empty (the index of the buffer that
\* buffer_view_or_create creates); and after next_buffer followed by
\* prev_buffer, buffer_idx is what it was before the two.
C38_BufferIdxValid ==
    Running =>
        /\ editor.buffer_view # <<>> => editor.buffer_idx < Len(editor.buffer_view)
        /\ editor.buffer_view = <<>> => editor.buffer_idx = 0
        /\ HasBuffer(buffer_view_or_create(editor))
        /\ (Len(hist.calls) = 2 /\ LastIs("prev_buffer"))
               => editor.buffer_idx = hist.calls[1].before.buffer_idx

\* next_buffer from the last of three buffers went to the first and
\* prev_buffer came back
C38_Witness ==
    /\ Running
    /\ Len(hist.calls) = 2 /\ LastIs("prev_buffer")
    /\ Len(editor.buffer_view) = MaxOpen
    /\ editor.buffer_idx = MaxOpen - 1

\* the last buffer of the list was the current one and has been closed
C38_WitnessClosedLast ==
    /\ Running /\ LastIs("close_buffer")
    /\ editor.buffer_view # <<>>
    /\ hist.calls[1].before.buffer_idx = Len(editor.buffer_view)
    /\ editor.buffer_idx = 0

\* the only buffer has been closed
C38_WitnessClosedAll ==
    /\ Running /\ LastIs("close_buffer")
    /\ editor.buffer_view = <<>>
    /\ hist.calls[1].before.buffer_view # <<>>

----------------------------------------------------------------------------
(* Buffers with unsaved changes                                             *)

\* the last command of the session
LastCommand == hist.calls[Len(hist.calls)]

\* the answer is a text that starts with y or Y
StartsWithY(answer) == answer.some /\ answer.text # <<>> /\ answer.text[1] \in {121, 89}

\* close_buffer was called on a dirty buffer, quit with a dirty buffer in the list
ClosedDirty ==
    /\ LastIs("close_buffer")
    /\ HasBuffer(LastCommand.before)
    /\ Current(LastCommand.before).buffer.is_dirty
QuitDirty == LastIs("quit") /\ dirty(LastCommand.before)

\* the editor runs with the buffers and the index it had before the command
KeptAll ==
    /\ Running
    /\ BufferStates(editor) = BufferStates(LastCommand.before)
    /\ editor.buffer_idx = LastCommand.before.buffer_idx

\* C39: after close_buffer on a dirty buffer and after quit with a dirty
\* buffer in the list, unless the prompt was answered with a text that starts
\* with y or Y, the editor runs and the buffers, their dirty flags and
\* buffer_idx are as before the command.
C39_DirtyBuffersKept ==
    ((ClosedDirty \/ QuitDirty) /\ ~StartsWithY(LastCommand.answer)) => KeptAll

\* the prompt of close_buffer was answered Yes and the dirty buffer is gone
C39_Witness ==
    /\ ClosedDirty /\ Running
    /\ LastCommand.answer = Answered(<<89, 101, 115>>)
    /\ Len(editor.buffer_view) = Len(LastCommand.before.buffer_view) - 1

\* the prompt of close_buffer was answered ny and the dirty buffer is kept
C39_WitnessRefused ==
    /\ ClosedDirty /\ KeptAll
    /\ LastCommand.answer = Answered(<<110, 121>>)
    /\ Len(editor.buffer_view) > 1

\* the prompt of close_buffer and the prompt of quit were cancelled
C39_WitnessCancelled == ClosedDirty /\ KeptAll /\ LastCommand.answer = Cancelled
C39_WitnessQuitCancelled == QuitDirty /\ KeptAll /\ LastCommand.answer = Cancelled

\* quit was answered y with a dirty buffer in the list and the editor has ended
C39_WitnessQuit ==
    /\ QuitDirty /\ editor = NoEditor
    /\ LastCommand.answer = Answered(<<121>>)

----------------------------------------------------------------------------
(* Where KeyMap::insert binds                                               *)

\* the last call of insert: its key sequence, the keymap before it and the
\* function it was given
LastInsert == keymap.last[1]
ChordPrefix(p, s) == Len(p) <= Len(s) /\ SubSeq(s, 1, Len(p)) = p
Unrelated(seq) == ~ChordPrefix(seq, LastInsert.inputs) /\ ~ChordPrefix(LastInsert.inputs, seq)

BoundAtEnd == BoundAt(keymap.km, LastInsert.inputs) = Func(keymap.calls)
UnrelatedUnchanged ==
    \A seq \in Chords :
        Unrelated(seq) => BoundAt(keymap.km, seq) = BoundAt(LastInsert.before, seq)

\* C40: after insert(seq, act) the keys of seq lead from the root to a
\* function binding that holds act, and the bindings at key sequences that
\* are neither a prefix nor an extension of seq are what they were.
C40_InsertBindsAtEnd == Inserted => BoundAtEnd /\ UnrelatedUnchanged

\* the same where no proper prefix of seq was bound to a function
C40_HoldsWithoutFuncPrefix ==
    (Inserted /\ FuncPrefixes(LastInsert.before, LastInsert.inputs) = {})
        => BoundAtEnd /\ UnrelatedUnchanged

\* unrelated bindings are unchanged by every insert
C40_UnrelatedUnchanged == Inserted => UnrelatedUnchanged

\* where a proper prefix of seq was bound to a function, act is bound at
\* that prefix and nothing at seq
C40_BoundAtFuncPrefix ==
    (Inserted /\ FuncPrefixes(LastInsert.before, LastInsert.inputs) # {})
        => /\ BoundAt(keymap.km, LastInsert.inputs) = NoAction
           /\ \A n \in FuncPrefixes(LastInsert.before, LastInsert.inputs) :
                  BoundAt(keymap.km, SubSeq(LastInsert.inputs, 1, n)) = Func(keymap.calls)

\* an insert below a sub-keymap that holds an unrelated function binding
C40_ReachedWithoutFuncPrefix ==
    /\ Inserted
    /\ LastInsert.inputs = <<"C-x", "C-x", "C-y">>
    /\ FuncPrefixes(LastInsert.before, LastInsert.inputs) = {}
    /\ BoundAt(LastInsert.before, <<"C-x", "C-y">>).kind = "Func"
    /\ BoundAt(LastInsert.before, <<"C-x", "C-x", "C-x">>).kind = "Func"

\* an insert of a chord with a proper prefix bound to a function
C40_ReachedFuncPrefix ==
    /\ Inserted
    /\ FuncPrefixes(LastInsert.before, LastInsert.inputs) # {}
    /\ Len(LastInsert.inputs) = MaxChordLen

====
